---- MODULE Spec2Model ----
(***************************************************************************)
(* A model of thermia_exporter: the collector's token cache and scrape     *)
(* (internal/collector), the OAuth2/PKCE login flow (internal/auth) and    *)
(* the register decoding that feeds the metrics (internal/mapper) and the  *)
(* loading of the credentials (internal/config).                           *)
(*                                                                         *)
(* The module holds several specifications over one set of variables.      *)
(* Each specification moves its own group of variables and leaves the      *)
(* other groups at their initial values:                                   *)
(*   Spec         the token cache under concurrent getOrRefreshToken calls *)
(*   SpecLive     the token cache under fair scheduling                    *)
(*   SpecCollect  one goroutine running Collect again and again            *)
(*   SpecInstall  collectInstallation over every combination of outcomes   *)
(*   SpecAuth     one Authenticate call against every server behaviour     *)
(*   SpecPick     pickCurrentStatus over lists of status labels            *)
(*   SpecStatus   emitOperationalStatusMetrics over status register groups *)
(*   SpecBitmask  ExtractBitmaskStatuses over groups and candidate lists   *)
(*   SpecDecode   the integer decoders of the mapper over register groups  *)
(*   SpecTemps    the temperature map of a scrape                          *)
(*   SpecAlerts   ExtractAlerts over active and full event lists           *)
(*   SpecConfig   LoadConfig over secret files and environments            *)
(***************************************************************************)
EXTENDS Integers, Sequences, FiniteSets, TLC

VARIABLES
    \* ---- ThermiaCollector: token cache and the scrapes in flight
    now,             \* the wall clock, in seconds (time.Now())
    tokenCache,      \* c.tokenCache: Nil or the cached AuthResult
    tokenExpiresAt,  \* c.tokenExpiresAt
    issuedAt,        \* the clock reading when tokenCache was last written
    rwReaders,       \* goroutines holding c.tokenCacheMu for reading
    rwWriter,        \* the goroutine holding c.tokenCacheMu for writing, or 0
    pc,              \* each goroutine's position in Collect / getOrRefreshToken
    res,             \* what getOrRefreshToken returned to each goroutine
    authCalls,       \* the number of Authenticate calls begun so far
    call,            \* per goroutine: bookkeeping on its current call
    scrape,          \* per goroutine: what its current Collect has done
    \* ---- collectInstallation on its own
    install,         \* the API outcomes of one run and what the run did
    \* ---- AuthClient: one Authenticate call
    auth,            \* the call's step, requests so far, authState and result
    \* ---- pickCurrentStatus on its own
    pick,            \* the running and available labels, and the label picked
    \* ---- emitOperationalStatusMetrics on its own
    stat,            \* the status register group and the series emitted for it
    \* ---- ExtractBitmaskStatuses on its own
    bits,            \* the register group, the candidate names and the result
    \* ---- the register decoders of the mapper on their own
    dec,             \* the register group and what each decoder returned
    \* ---- ExtractTemperatures and TemperaturesToMap on their own
    temps,           \* the status, the temperature group and the map built
    \* ---- ExtractAlerts on its own
    alerts,          \* the active and the full event list, and the result
    \* ---- LoadConfig on its own
    cfg              \* the secret files, the environment and the credentials

tokVars == <<now, tokenCache, tokenExpiresAt, issuedAt, rwReaders, rwWriter,
             pc, res, authCalls, call>>

colVars == <<scrape>>

instVars == <<install>>

authVars == <<auth>>

pickVars == <<pick>>

statVars == <<stat>>

bitsVars == <<bits>>

decVars == <<dec>>

tempsVars == <<temps>>

alertsVars == <<alerts>>

cfgVars == <<cfg>>

\* The state of the mapper functions and of LoadConfig run on their own.
moreVars == <<bitsVars, decVars, tempsVars, alertsVars, cfgVars>>

\* What the token cache and Collect never touch.
restVars == <<instVars, authVars, pickVars, statVars, moreVars>>

vars == <<tokVars, colVars, restVars>>

-----------------------------------------------------------------------------
(* Bounds of the model *)

NumCallers == 2
MaxTime == 2
MaxAuth == 2

(* Program constants *)

\* 5 * time.Minute, in seconds
SafetyMargin == 300

-----------------------------------------------------------------------------
(* Token cache: ThermiaCollector.getOrRefreshToken *)

Callers == 1..NumCallers

\* The lifetimes (expires_in, seconds) the token endpoint may report.
Lifetimes == {0, 2, 300, 301}

\* A nil *auth.AuthResult
Nil == [AccessToken |-> 0, ExpiresIn |-> 0]

AuthResult(id, l) == [AccessToken |-> id, ExpiresIn |-> l]

NoReturn == [token |-> Nil, err |-> FALSE]

NoCall == [startExp |-> 0, startAuth |-> 0]

NoScrape == [errs |-> 0, requests |-> {}, emitted |-> FALSE]

\* No collectInstallation run is under way.
NoInstall == [infoOk |-> FALSE, statusOk |-> FALSE, statusTemps |-> "none",
              fetched |-> <<>>, ran |-> FALSE,
              out |-> [aborted |-> FALSE, requests |-> {}, emitted |-> {}]]

\* The cache holds a token whose cached expiry lies in the future.
Fresh == tokenCache # Nil /\ now < tokenExpiresAt

\* A faulty variant of the validity test: After instead of Before.
TokenValidReversed == tokenCache # Nil /\ now > tokenExpiresAt

\* c.tokenCache != nil && time.Now().Before(c.tokenExpiresAt)
TokenValid == tokenCache # Nil /\ now < tokenExpiresAt

\* expiresIn after the safety margin was taken off
ExpiresInAfterMargin(l) == IF l > SafetyMargin THEN l - SafetyMargin ELSE l

-----------------------------------------------------------------------------
(* internal/auth: strings and records *)

RECURSIVE SplitFrom(_, _, _, _)
\* The pieces of s from position i on, cur being the piece under way.
SplitFrom(s, sep, i, cur) ==
    IF i > Len(s) THEN <<cur>>
    ELSE IF SubSeq(s, i, i) = sep
      THEN <<cur>> \o SplitFrom(s, sep, i + 1, "")
      ELSE SplitFrom(s, sep, i + 1, cur \o SubSeq(s, i, i))

\* A faulty variant of the split: only the first separator splits.
SplitOnce(s, sep) ==
    LET at == {i \in 1..Len(s) : SubSeq(s, i, i) = sep}
    IN  IF at = {} THEN <<s>>
        ELSE LET i == CHOOSE i \in at : \A j \in at : i <= j
             IN  <<SubSeq(s, 1, i - 1), SubSeq(s, i + 1, Len(s))>>

\* strings.Split(s, sep) for a one-character separator
Split(s, sep) == SplitFrom(s, sep, 1, "")

\* strings.HasPrefix
HasPrefix(s, prefix) ==
    Len(s) >= Len(prefix) /\ SubSeq(s, 1, Len(prefix)) = prefix

redirectURI == "https://online.thermia.se/login"

errNeedSelfAsserted == "need SelfAsserted step"

\* A final URL (res.Request.URL): everything before the query, and the code
\* query parameter ("" when there is none).
URLString(u) == IF u.code = "" THEN u.base ELSE u.base \o "?code=" \o u.code

\* authState
NilState == [Code |-> "", CSRF |-> "", StateProps |-> ""]

\* No AuthResult
NoToken == [AccessToken |-> "", ExpiresIn |-> 0]

\* No Authenticate result yet.
NoResult == [token |-> NoToken, err |-> ""]

\* httpClient.Do returned an error instead of an authorize response.
NoResponse == [received |-> FALSE, found |-> FALSE, json |-> FALSE,
               transId |-> "", csrf |-> "", code |-> ""]

\* httpClient.Do returned an error instead of a self-asserted response.
NoSelfResponse == [received |-> FALSE, status |-> 0, says400 |-> FALSE]

\* httpClient.Do returned an error instead of a confirm-step response.
NoHopResponse == [received |-> FALSE, url |-> [base |-> "", code |-> ""]]

\* httpClient.Do returned an error instead of a token response.
NoTokenResponse == [received |-> FALSE, status |-> 0, body |-> "",
                    json |-> FALSE, accessToken |-> "", expiresIn |-> 0]

\* Authenticate has not been called: no request made, no response received.
NoAuth == [step |-> "idle", reqs |-> <<>>, state |-> NilState,
           authz |-> NoResponse, self |-> NoSelfResponse,
           hop1 |-> NoHopResponse, hop2 |-> NoHopResponse,
           tokenResponse |-> NoTokenResponse, out |-> NoResult]

-----------------------------------------------------------------------------
(* Status labels: strings.ToUpper, strings.EqualFold, pickCurrentStatus *)

LowerCase == "abcdefghijklmnopqrstuvwxyz"

UpperCase == "ABCDEFGHIJKLMNOPQRSTUVWXYZ"

\* The upper-case form of a one-character string.
UpperChar(c) ==
    LET at == {i \in 1..Len(LowerCase) : SubSeq(LowerCase, i, i) = c}
    IN  IF at = {} THEN c
        ELSE LET i == CHOOSE i \in at : TRUE IN SubSeq(UpperCase, i, i)

RECURSIVE ToUpperFrom(_, _)
ToUpperFrom(s, i) ==
    IF i > Len(s) THEN "" ELSE UpperChar(SubSeq(s, i, i)) \o ToUpperFrom(s, i + 1)

\* strings.ToUpper
ToUpper(s) == ToUpperFrom(s, 1)

\* strings.EqualFold
EqualFold(s, t) == ToUpper(s) = ToUpper(t)

\* A faulty variant of the priority list: POOL and COOL change places.
priorityPoolFirst ==
    <<"STATUS_LEGIONELLA", "STATUS_HOTWATER", "STATUS_HEAT", "STATUS_POOL",
      "STATUS_PASSIVE_COOL", "STATUS_COOL", "STATUS_STANDBY",
      "STATUS_NO_DEMAND", "OPERATION_MODE_OFF">>

\* pickCurrentStatus: priority order (highest first)
priority ==
    <<"STATUS_LEGIONELLA", "STATUS_HOTWATER", "STATUS_HEAT", "STATUS_COOL",
      "STATUS_PASSIVE_COOL", "STATUS_POOL", "STATUS_STANDBY",
      "STATUS_NO_DEMAND", "OPERATION_MODE_OFF">>

\* The filter made to keep every running label.
FilterNoDemandKeepsAll(running) == running

\* pickCurrentStatus: running without the labels that fold to STATUS_NO_DEMAND
FilterNoDemand(running) ==
    SelectSeq(running, LAMBDA l : ~EqualFold(l, "STATUS_NO_DEMAND"))

\* Register values are float64 in the program; here they are integers that
\* count hundred-thousandths, so that 4.99999 is 499999 and 0.00001 is 1.
Scale == 100000

\* A *float64: nil, or a pointer to x.
NilValue == [nil |-> TRUE, v |-> 0]

Float(x) == [nil |-> FALSE, v |-> x]

\* A faulty variant of the conversion: the value is truncated as it is.
ToIntBare(x) == IF x >= 0 THEN x \div Scale ELSE -((-x) \div Scale)

\* int(x + 0.00001): the conversion truncates towards zero.
ToInt(x) ==
    LET a == x + 1
    IN  IF a >= 0 THEN a \div Scale ELSE -((-a) \div Scale)

RECURSIVE BitAndNat(_, _)
\* a & b for a, b >= 0
BitAndNat(a, b) ==
    IF a = 0 \/ b = 0 THEN 0
    ELSE (a % 2) * (b % 2) + 2 * BitAndNat(a \div 2, b \div 2)

\* A faulty variant of the mask test: the code has to equal the value.
BitAndWhole(a, b) == IF a = b THEN b ELSE 0

\* a & b for b >= 0 and a of either sign (two's complement)
BitAnd(a, b) == IF a >= 0 THEN BitAndNat(a, b) ELSE b - BitAndNat(-a - 1, b)

StatusPrefixRegValue == "REG_VALUE_"

StatusPrefixCompValue == "COMP_VALUE_"

\* strings.TrimPrefix, for a string that has the prefix
TrimPrefix(s, prefix) == SubSeq(s, Len(prefix) + 1, Len(s))

\* trimStatus
trimStatus(s) ==
    IF HasPrefix(s, StatusPrefixRegValue) THEN TrimPrefix(s, StatusPrefixRegValue)
    ELSE IF HasPrefix(s, StatusPrefixCompValue)
      THEN TrimPrefix(s, StatusPrefixCompValue)
    ELSE s

OperationalStatusCandidates ==
    <<"REG_OPERATIONAL_STATUS_PRIORITY_BITMASK", "COMP_STATUS",
      "COMP_STATUS_ATEC", "COMP_STATUS_ITEC">>

\* The first item of the group with the register name, 0 when there is none.
IndexOfRegister(items, rn) ==
    LET at == {i \in 1..Len(items) : items[i].RegisterName = rn}
    IN  IF at = {} THEN 0 ELSE CHOOSE i \in at : \A j \in at : i <= j

\* ExtractBitmaskStatuses made to report the hidden entries of the table
\* among the running labels.
ExtractBitmaskStatusesAnyEntry(items, registerNames) ==
    LET hits == {k \in 1..Len(registerNames) :
                    IndexOfRegister(items, registerNames[k]) # 0}
    IN  IF hits = {} THEN [Running |-> <<>>, Available |-> <<>>]
        ELSE
          LET k == CHOOSE k \in hits : \A j \in hits : k <= j
              match == items[IndexOfRegister(items, registerNames[k])]
              visible == SelectSeq(match.ValueNames, LAMBDA vn : vn.Visible)
              Available == [i \in 1..Len(visible) |-> trimStatus(visible[i].Name)]
          IN  IF match.RegisterValue.nil
                THEN [Running |-> <<>>, Available |-> Available]
              ELSE
                LET val == ToInt(match.RegisterValue.v)
                    on == SelectSeq(match.ValueNames,
                                    LAMBDA vn : BitAnd(val, vn.Value) # 0)
                IN  [Running |-> [i \in 1..Len(on) |-> trimStatus(on[i].Name)],
                     Available |-> Available]

\* ExtractBitmaskStatuses
ExtractBitmaskStatuses(items, registerNames) ==
    LET hits == {k \in 1..Len(registerNames) :
                    IndexOfRegister(items, registerNames[k]) # 0}
    IN  IF hits = {} THEN [Running |-> <<>>, Available |-> <<>>]
        ELSE
          LET k == CHOOSE k \in hits : \A j \in hits : k <= j
              match == items[IndexOfRegister(items, registerNames[k])]
              visible == SelectSeq(match.ValueNames, LAMBDA vn : vn.Visible)
              Available == [i \in 1..Len(visible) |-> trimStatus(visible[i].Name)]
          IN  IF match.RegisterValue.nil
                THEN [Running |-> <<>>, Available |-> Available]
              ELSE
                LET val == ToInt(match.RegisterValue.v)
                    on == SelectSeq(visible,
                                    LAMBDA vn : BitAnd(val, vn.Value) # 0)
                IN  [Running |-> [i \in 1..Len(on) |-> trimStatus(on[i].Name)],
                     Available |-> Available]

\* A faulty variant of pickCurrentStatus: no ranking and no fallback to the
\* available labels.
pickFirstRunning(running, available) ==
    IF Len(running) > 0 THEN running[1] ELSE ""

\* pickCurrentStatus
pickCurrentStatus(running, available) ==
    IF Len(running) = 0 /\ Len(available) = 0 THEN ""
    ELSE
      LET kept == FilterNoDemand(running)
          filtered == IF Len(kept) = 0 THEN running ELSE kept
          have == {ToUpper(filtered[i]) : i \in 1..Len(filtered)}
          hits == {i \in 1..Len(priority) : priority[i] \in have}
      IN  IF hits # {}
            THEN priority[CHOOSE i \in hits : \A j \in hits : i <= j]
          ELSE IF Len(filtered) > 0 THEN filtered[1]
          ELSE IF Len(available) > 0 THEN available[1]
          ELSE ""

\* pickCurrentStatus has not run.
NoPick == [running |-> <<>>, available |-> <<>>, ran |-> FALSE, out |-> ""]

\* emitOperationalStatusMetrics: the thermia_operational_status_available
\* series (each with value 1) and the thermia_operational_status_running
\* series, in the order they are sent.
emitOperationalStatusMetrics(grpStatus) ==
    LET statusData == ExtractBitmaskStatuses(grpStatus, OperationalStatusCandidates)
        current == pickCurrentStatus(statusData.Running, statusData.Available)
    IN  [available |-> statusData.Available,
         running |-> [i \in 1..Len(statusData.Available) |->
                        [status |-> statusData.Available[i],
                         value |-> IF EqualFold(statusData.Available[i], current)
                                     THEN 1 ELSE 0]]]

\* emitOperationalStatusMetrics has not run.
NoStatus == [grpStatus |-> <<>>, ran |-> FALSE,
             out |-> [available |-> <<>>, running |-> <<>>]]

ModePrefixRegValue == "REG_VALUE_OPERATION_MODE_"

RegOperationMode == "REG_OPERATIONMODE"

RegHotWaterBoost == "REG__HOT_WATER_BOOST"

RegHotWaterStatus == "REG_HOT_WATER_STATUS"

\* The keys of ExtractOperationalTime, in its order.
OperTimeKeys ==
    <<"REG_OPER_TIME_COMPRESSOR", "REG_OPER_TIME_HEATING",
      "REG_OPER_TIME_HOT_WATER", "REG_OPER_TIME_IMM1", "REG_OPER_TIME_IMM2",
      "REG_OPER_TIME_IMM3">>

\* strings.TrimPrefix, for any string
TrimPrefixIfAny(s, prefix) ==
    IF HasPrefix(s, prefix) THEN TrimPrefix(s, prefix) ELSE s

\* trimMode made to strip REG_VALUE_ alone.
trimModeOnePrefix(s) == TrimPrefixIfAny(s, StatusPrefixRegValue)

\* trimMode
trimMode(s) ==
    TrimPrefixIfAny(TrimPrefixIfAny(s, ModePrefixRegValue), StatusPrefixRegValue)

\* ExtractOperationMode (Current and Available)
ExtractOperationMode(items) ==
    LET at == IndexOfRegister(items, RegOperationMode)
    IN  IF at = 0 THEN [Current |-> "", Available |-> <<>>]
        ELSE
          LET it == items[at]
              visible == SelectSeq(it.ValueNames, LAMBDA vn : vn.Visible)
              Available == [i \in 1..Len(visible) |-> trimMode(visible[i].Name)]
              hits == IF it.RegisterValue.nil THEN {}
                      ELSE {i \in 1..Len(it.ValueNames) :
                              it.ValueNames[i].Value = ToInt(it.RegisterValue.v)}
          IN  [Current |-> IF hits = {} THEN ""
                           ELSE trimMode(it.ValueNames[
                                  CHOOSE i \in hits : \A j \in hits : i <= j].Name),
               Available |-> Available]

\* A *int: nil, or a pointer to n.
NilInt == [nil |-> TRUE, v |-> 0]

IntPtr(n) == [nil |-> FALSE, v |-> n]

\* The items of the group with the register name and a value.
Valued(items, rn) ==
    {i \in 1..Len(items) :
        items[i].RegisterName = rn /\ ~items[i].RegisterValue.nil}

\* ExtractHotWaterSwitches: every item with a value overwrites the state.
ExtractHotWaterSwitches(items) ==
    LET last(rn) ==
          LET at == Valued(items, rn)
          IN  IF at = {} THEN NilInt
              ELSE IntPtr(ToInt(items[CHOOSE i \in at : \A j \in at : i >= j]
                               .RegisterValue.v))
    IN  [switchState |-> last(RegHotWaterStatus),
         boostState |-> last(RegHotWaterBoost)]

\* ExtractOperationalTime: per key, the first item with a value.
ExtractOperationalTime(items) ==
    LET keys == {OperTimeKeys[j] : j \in 1..Len(OperTimeKeys)}
    IN  [k \in {key \in keys : Valued(items, key) # {}} |->
           LET at == Valued(items, k)
           IN  ToInt(items[CHOOSE i \in at : \A j \in at : i <= j]
                       .RegisterValue.v)]

\* The decoders have not run.
NoDec ==
    [items |-> <<>>, ran |-> FALSE,
     out |-> [mode |-> [Current |-> "", Available |-> <<>>],
              status |-> [Running |-> <<>>, Available |-> <<>>],
              hotWater |-> [switchState |-> NilInt, boostState |-> NilInt],
              operTime |-> <<>>]]

\* findValue: the value of the first item with the name and a value
findValue(items, registerName) ==
    LET at == Valued(items, registerName)
    IN  IF at = {} THEN NilValue
        ELSE items[CHOOSE i \in at : \A j \in at : i <= j].RegisterValue

\* firstNonNil made to return the last value that is not nil.
lastNonNil(vals) ==
    LET at == {i \in 1..Len(vals) : ~vals[i].nil}
    IN  IF at = {} THEN NilValue
        ELSE vals[CHOOSE i \in at : \A j \in at : i >= j]

\* firstNonNil
firstNonNil(vals) ==
    LET at == {i \in 1..Len(vals) : ~vals[i].nil}
    IN  IF at = {} THEN NilValue
        ELSE vals[CHOOSE i \in at : \A j \in at : i <= j]

\* ExtractTemperatures; Outdoor is left for the caller to fill in.
ExtractTemperatures(status, grp) ==
    LET or(v, rn) == IF v.nil THEN findValue(grp, rn) ELSE v
    IN  [Indoor |-> or(status.IndoorTemperature, "REG_INDOOR_TEMPERATURE"),
         Outdoor |-> NilValue,
         SupplyLine |-> or(status.SupplyLine, "REG_SUPPLY_LINE"),
         DesiredSupplyLine |->
           firstNonNil(<<status.DesiredSupplyLineTemperature,
                         findValue(grp, "REG_DESIRED_SUPPLY_LINE_TEMP"),
                         findValue(grp, "REG_DESIRED_SUPPLY_LINE"),
                         findValue(grp, "REG_DESIRED_SYS_SUPPLY_LINE_TEMP")>>),
         ReturnLine |->
           firstNonNil(<<status.ReturnLineTemperature,
                         findValue(grp, "REG_RETURN_LINE"),
                         findValue(grp, "REG_OPER_DATA_RETURN")>>),
         BufferTank |-> or(status.BufferTankTemperature,
                           "REG_OPER_DATA_BUFFER_TANK"),
         HotWater |-> status.HotWaterTemperature,
         BrineOut |-> or(status.BrineOutTemperature, "REG_BRINE_OUT"),
         BrineIn |-> or(status.BrineInTemperature, "REG_BRINE_IN"),
         Pool |-> or(status.PoolTemperature, "REG_ACTUAL_POOL_TEMP"),
         CoolingTank |-> or(status.CoolingTankTemperature,
                            "REG_COOL_SENSOR_TANK"),
         CoolingSupply |-> or(status.CoolingSupplyLineTemperature,
                              "REG_COOL_SENSOR_SUPPLY")]

\* emitTemperatureMetrics: the outdoor temperature comes from the registers.
WithOutdoor(t, grp) ==
    LET outdoor == findValue(grp, "REG_OUTDOOR_TEMPERATURE")
    IN  [t EXCEPT !.Outdoor =
           IF outdoor.nil THEN findValue(grp, "REG_OPER_DATA_OUTDOOR_TEMP_MA_SA")
           ELSE outdoor]

\* A faulty variant of round1: the sum is rounded down.
round1Floor(f) ==
    LET a == f * 10 + Scale \div 2
    IN  IF a >= 0 THEN a \div Scale ELSE -((-a + Scale - 1) \div Scale)

\* A faulty variant of round1: the value is rounded to the nearest tenth.
round1Nearest(f) ==
    IF f >= 0 THEN (f * 10 + Scale \div 2) \div Scale
    ELSE -((-f * 10 + Scale \div 2) \div Scale)

\* round1: float64(int(f*10+0.5)) / 10.0. f is in units of 0.00001, int()
\* truncates towards zero, and the result is held as a number of tenths.
round1(f) ==
    LET a == f * 10 + Scale \div 2
    IN  IF a >= 0 THEN a \div Scale ELSE -((-a) \div Scale)

\* A faulty variant of the indoor filter: 100.0 passes.
IndoorValidInclusive(v) == v <= 100 * Scale

\* The indoor filter of TemperaturesToMap: *t.Indoor < 100
IndoorValid(v) == v < 100 * Scale

\* The keys of TemperaturesToMap and the field each one reports.
TemperatureKeys ==
    <<<<"indoor", "Indoor">>, <<"outdoor", "Outdoor">>,
      <<"supply_line", "SupplyLine">>,
      <<"desired_supply_line", "DesiredSupplyLine">>,
      <<"return_line", "ReturnLine">>, <<"buffer_tank", "BufferTank">>,
      <<"hot_water", "HotWater">>, <<"brine_out", "BrineOut">>,
      <<"brine_in", "BrineIn">>, <<"pool", "Pool">>,
      <<"cooling_tank", "CoolingTank">>,
      <<"cooling_supply", "CoolingSupply">>>>

\* TemperaturesToMap: a map from the key to the rounded value, in tenths.
TemperaturesToMap(t) ==
    LET field(k) ==
          t[TemperatureKeys[CHOOSE i \in 1..Len(TemperatureKeys) :
                              TemperatureKeys[i][1] = k][2]]
        kept == {k \in {TemperatureKeys[i][1] : i \in 1..Len(TemperatureKeys)} :
                   /\ ~field(k).nil
                   /\ k = "indoor" => IndoorValid(field(k).v)}
    IN  [k \in kept |-> round1(field(k).v)]

\* An InstallationStatus without any reading.
NoStatusSummary ==
    [IndoorTemperature |-> NilValue, HotWaterTemperature |-> NilValue,
     SupplyLine |-> NilValue, DesiredSupplyLineTemperature |-> NilValue,
     BufferTankTemperature |-> NilValue, ReturnLineTemperature |-> NilValue,
     BrineOutTemperature |-> NilValue, BrineInTemperature |-> NilValue,
     PoolTemperature |-> NilValue, CoolingTankTemperature |-> NilValue,
     CoolingSupplyLineTemperature |-> NilValue]

\* types.TemperatureData{}: no reading at all.
NoTemperatureData ==
    [Indoor |-> NilValue, Outdoor |-> NilValue, SupplyLine |-> NilValue,
     DesiredSupplyLine |-> NilValue, ReturnLine |-> NilValue,
     BufferTank |-> NilValue, HotWater |-> NilValue, BrineOut |-> NilValue,
     BrineIn |-> NilValue, Pool |-> NilValue, CoolingTank |-> NilValue,
     CoolingSupply |-> NilValue]

\* TemperaturesToMap has not run.
NoTemps == [status |-> NoStatusSummary, grp |-> <<>>, ran |-> FALSE,
            data |-> NoTemperatureData, out |-> <<>>]

\* The white space of ASCII.
WhiteSpace == {" ", "\t", "\n", "\r"}

RECURSIVE TrimLeft(_)
\* The string without its leading white space.
TrimLeft(s) ==
    IF Len(s) > 0 /\ SubSeq(s, 1, 1) \in WhiteSpace
      THEN TrimLeft(SubSeq(s, 2, Len(s)))
    ELSE s

RECURSIVE TrimRight(_)
\* The string without its trailing white space.
TrimRight(s) ==
    IF Len(s) > 0 /\ SubSeq(s, Len(s), Len(s)) \in WhiteSpace
      THEN TrimRight(SubSeq(s, 1, Len(s) - 1))
    ELSE s

\* strings.TrimSpace
TrimSpace(s) == TrimRight(TrimLeft(s))

RECURSIVE uniqueTitlesFrom(_, _, _)
\* The loop of uniqueTitles from the i-th event on; result holds the titles
\* seen so far.
uniqueTitlesFrom(events, i, result) ==
    IF i > Len(events) THEN result
    ELSE
      LET t == TrimSpace(events[i].EventTitle)
      IN  IF t = "" \/ \E j \in 1..Len(result) : result[j] = t
            THEN uniqueTitlesFrom(events, i + 1, result)
          ELSE uniqueTitlesFrom(events, i + 1, Append(result, t))

\* uniqueTitles
uniqueTitles(events) == uniqueTitlesFrom(events, 1, <<>>)

\* A faulty variant of difference: nothing is taken out.
differenceKeepsAll(all, active) == all

\* difference
difference(all, active) ==
    SelectSeq(all, LAMBDA t : \A j \in 1..Len(active) : active[j] # t)

\* ExtractAlerts
ExtractAlerts(activeEvents, allEvents) ==
    LET activeTitles == uniqueTitles(activeEvents)
        allTitles == uniqueTitles(allEvents)
    IN  [active |-> activeTitles,
         archived |-> difference(allTitles, activeTitles)]

\* ExtractAlerts has not run.
NoAlerts == [activeEvents |-> <<>>, allEvents |-> <<>>, ran |-> FALSE,
             out |-> [active |-> <<>>, archived |-> <<>>]]

\* A file of the secrets directory: missing, unreadable, or its content.
MissingFile == [state |-> "missing", data |-> ""]

UnreadableFile == [state |-> "unreadable", data |-> ""]

FileOf(data) == [state |-> "data", data |-> data]

\* tryLoadFromSecrets, on the directory named by THERMIA_SECRETS_PATH or the
\* default one.
tryLoadFromSecrets(fs) ==
    LET none == [username |-> "", password |-> "", err |-> ""]
    IN  IF ~fs.dir THEN none
        ELSE IF fs.username.state = "missing" THEN none
        ELSE IF fs.username.state = "unreadable"
          THEN [none EXCEPT !.err = "read username"]
        ELSE IF fs.password.state = "missing"
          THEN [none EXCEPT !.username = TrimSpace(fs.username.data)]
        ELSE IF fs.password.state = "unreadable"
          THEN [none EXCEPT !.err = "read password"]
        ELSE [username |-> TrimSpace(fs.username.data),
              password |-> TrimSpace(fs.password.data), err |-> ""]

Digits == "0123456789"

\* The value of a decimal digit, -1 for any other character.
DigitValue(c) ==
    LET at == {d \in 1..Len(Digits) : SubSeq(Digits, d, d) = c}
    IN  IF at = {} THEN -1 ELSE (CHOOSE d \in at : TRUE) - 1

RECURSIVE AtoiFrom(_, _, _)
\* The digits of s from the i-th character on, after the value n.
AtoiFrom(s, i, n) ==
    IF i > Len(s) THEN [ok |-> TRUE, n |-> n]
    ELSE IF DigitValue(SubSeq(s, i, i)) < 0 THEN [ok |-> FALSE, n |-> 0]
    ELSE AtoiFrom(s, i + 1, n * 10 + DigitValue(SubSeq(s, i, i)))

\* strconv.Atoi, for strings short enough not to overflow
Atoi(s) ==
    LET signed == Len(s) > 0 /\ SubSeq(s, 1, 1) \in {"+", "-"}
        digits == IF signed THEN SubSeq(s, 2, Len(s)) ELSE s
        r == AtoiFrom(digits, 1, 0)
    IN  IF digits = "" THEN [ok |-> FALSE, n |-> 0]
        ELSE IF signed /\ SubSeq(s, 1, 1) = "-" THEN [r EXCEPT !.n = -r.n]
        ELSE r

\* The defaults of LoadConfig; the request timeout is in seconds.
DefaultConfig ==
    [Username |-> "", Password |-> "", ListenAddr |-> ":9808",
     RequestTimeout |-> 2 * 60, LogLevel |-> "info", LogFormat |-> "text"]

\* A faulty variant of the choice of LoadConfig: the secrets are never used.
UseSecretsNever(r) == FALSE

\* The choice of LoadConfig between the secrets and the environment.
UseSecrets(r) == r.err = "" /\ r.username # "" /\ r.password # ""

\* LoadConfig
LoadConfig(fs, env) ==
    LET r == tryLoadFromSecrets(fs)
        timeout == Atoi(env.THERMIA_REQUEST_TIMEOUT)
    IN  [Username |-> IF UseSecrets(r) THEN r.username
                      ELSE env.THERMIA_USERNAME,
         Password |-> IF UseSecrets(r) THEN r.password
                      ELSE env.THERMIA_PASSWORD,
         ListenAddr |-> IF env.THERMIA_ADDR # "" THEN env.THERMIA_ADDR
                        ELSE DefaultConfig.ListenAddr,
         RequestTimeout |->
           IF env.THERMIA_REQUEST_TIMEOUT # "" /\ timeout.ok /\ timeout.n > 0
             THEN timeout.n
           ELSE DefaultConfig.RequestTimeout,
         LogLevel |-> IF env.THERMIA_LOG_LEVEL # "" THEN env.THERMIA_LOG_LEVEL
                      ELSE DefaultConfig.LogLevel,
         LogFormat |-> IF env.THERMIA_LOG_FORMAT # "" THEN env.THERMIA_LOG_FORMAT
                       ELSE DefaultConfig.LogFormat]

\* An environment without any of the variables.
NoEnv ==
    [THERMIA_USERNAME |-> "", THERMIA_PASSWORD |-> "", THERMIA_ADDR |-> "",
     THERMIA_REQUEST_TIMEOUT |-> "", THERMIA_LOG_LEVEL |-> "",
     THERMIA_LOG_FORMAT |-> ""]

\* LoadConfig has not run.
NoCfg ==
    [fs |-> [dir |-> FALSE, username |-> MissingFile, password |-> MissingFile],
     env |-> NoEnv, ran |-> FALSE, out |-> DefaultConfig]

InitToken ==
    /\ now = 0
    /\ tokenCache = Nil
    /\ tokenExpiresAt = 0
    /\ issuedAt = 0
    /\ rwReaders = {}
    /\ rwWriter = 0
    /\ pc = [g \in Callers |-> "idle"]
    /\ res = [g \in Callers |-> NoReturn]
    /\ authCalls = 0
    /\ call = [g \in Callers |-> NoCall]

InitCollect == scrape = [g \in Callers |-> NoScrape]

IdleInstall == install = NoInstall

IdleAuth == auth = NoAuth

IdlePick == pick = NoPick

IdleStatus == stat = NoStatus

\* ExtractBitmaskStatuses has not run.
NoBits == [items |-> <<>>, registerNames |-> <<>>, ran |-> FALSE,
           out |-> [Running |-> <<>>, Available |-> <<>>]]

IdleBits == bits = NoBits

IdleDec == dec = NoDec

IdleTemps == temps = NoTemps

IdleAlerts == alerts = NoAlerts

IdleCfg == cfg = NoCfg

IdleMore == IdleBits /\ IdleDec /\ IdleTemps /\ IdleAlerts /\ IdleCfg

\* Every function that runs on its own is idle.
IdleRest == IdleInstall /\ IdleAuth /\ IdlePick /\ IdleStatus /\ IdleMore

\* The clock advances.
Tick ==
    /\ now < MaxTime
    /\ now' = now + 1
    /\ UNCHANGED <<tokenCache, tokenExpiresAt, issuedAt, rwReaders, rwWriter,
                   pc, res, authCalls, call, scrape>>
    /\ UNCHANGED restVars

\* The number of Authenticate calls that have returned.
AuthDone == authCalls - Cardinality({g \in Callers : pc[g] = "auth"})

\* getOrRefreshToken is called: the caller's bookkeeping for this call (the
\* cached expiry if the token is fresh, and the Authenticate calls completed).
GetTokenStart(g) ==
    /\ pc[g] = "idle"
    /\ pc' = [pc EXCEPT ![g] = "rlock"]
    /\ res' = [res EXCEPT ![g] = NoReturn]
    /\ call' = [call EXCEPT ![g] =
                    [startExp |-> IF Fresh THEN tokenExpiresAt ELSE 0,
                     startAuth |-> AuthDone]]
    /\ UNCHANGED <<now, tokenCache, tokenExpiresAt, issuedAt, rwReaders,
                   rwWriter, authCalls>>
    /\ UNCHANGED restVars

\* c.tokenCacheMu.RLock()
RLock(g) ==
    /\ pc[g] = "rlock"
    /\ rwWriter = 0
    /\ rwReaders' = rwReaders \cup {g}
    /\ pc' = [pc EXCEPT ![g] = "rcheck"]
    /\ UNCHANGED <<now, tokenCache, tokenExpiresAt, issuedAt, rwWriter, res,
                   authCalls, call, scrape>>
    /\ UNCHANGED restVars

\* The check under the read lock, and RUnlock on either branch.
ReadCheck(g) ==
    /\ pc[g] = "rcheck"
    /\ rwReaders' = rwReaders \ {g}
    /\ IF TokenValid
          THEN /\ res' = [res EXCEPT ![g] = [token |-> tokenCache, err |-> FALSE]]
               /\ pc' = [pc EXCEPT ![g] = "tokDone"]
          ELSE /\ res' = res
               /\ pc' = [pc EXCEPT ![g] = "lock"]
    /\ UNCHANGED <<now, tokenCache, tokenExpiresAt, issuedAt, rwWriter,
                   authCalls, call, scrape>>
    /\ UNCHANGED restVars

\* A faulty variant of the lock: it excludes nobody.
CanLockUnguarded == TRUE

\* Whether c.tokenCacheMu.Lock() can be acquired.
CanLock == rwWriter = 0 /\ rwReaders = {}

\* c.tokenCacheMu.Lock(); the deferred Unlock runs when the call returns.
Lock(g) ==
    /\ pc[g] = "lock"
    /\ CanLock
    /\ rwWriter' = g
    /\ pc' = [pc EXCEPT ![g] = "dcheck"]
    /\ UNCHANGED <<now, tokenCache, tokenExpiresAt, issuedAt, rwReaders, res,
                   authCalls, call, scrape>>
    /\ UNCHANGED restVars

\* A faulty variant of getOrRefreshToken: no second check under the lock.
DoubleCheckSkipped == FALSE

\* Whether the second check, under the write lock, finds the token usable.
DoubleCheckHit == TokenValid

\* The double check: return the cached token, or begin Authenticate.
DoubleCheck(g) ==
    /\ pc[g] = "dcheck"
    /\ IF DoubleCheckHit
          THEN /\ res' = [res EXCEPT ![g] = [token |-> tokenCache, err |-> FALSE]]
               /\ pc' = [pc EXCEPT ![g] = "tokDone"]
               /\ rwWriter' = 0
               /\ UNCHANGED <<authCalls, call>>
          ELSE /\ authCalls < MaxAuth
               /\ authCalls' = authCalls + 1
               /\ pc' = [pc EXCEPT ![g] = "auth"]
               /\ UNCHANGED <<res, rwWriter, call>>
    /\ UNCHANGED <<now, tokenCache, tokenExpiresAt, issuedAt, rwReaders, scrape>>
    /\ UNCHANGED restVars

\* A faulty variant of the error return: it drops the cached token.
AuthFailClearsCache(g) ==
    /\ pc[g] = "auth"
    /\ res' = [res EXCEPT ![g] = [token |-> Nil, err |-> TRUE]]
    /\ pc' = [pc EXCEPT ![g] = "tokDone"]
    /\ rwWriter' = 0
    /\ tokenCache' = Nil
    /\ tokenExpiresAt' = 0
    /\ UNCHANGED <<now, issuedAt, rwReaders, authCalls, call, scrape>>
    /\ UNCHANGED restVars

\* A faulty variant of the error return: the deferred Unlock does not run.
AuthFailKeepsLock(g) ==
    /\ pc[g] = "auth"
    /\ res' = [res EXCEPT ![g] = [token |-> Nil, err |-> TRUE]]
    /\ pc' = [pc EXCEPT ![g] = "tokDone"]
    /\ UNCHANGED <<now, tokenCache, tokenExpiresAt, issuedAt, rwReaders,
                   rwWriter, authCalls, call, scrape>>
    /\ UNCHANGED restVars

\* Authenticate returned an error: the error goes to the caller.
AuthFail(g) ==
    /\ pc[g] = "auth"
    /\ res' = [res EXCEPT ![g] = [token |-> Nil, err |-> TRUE]]
    /\ pc' = [pc EXCEPT ![g] = "tokDone"]
    /\ rwWriter' = 0
    /\ UNCHANGED <<now, tokenCache, tokenExpiresAt, issuedAt, rwReaders,
                   authCalls, call, scrape>>
    /\ UNCHANGED restVars

\* Authenticate returned a result: it is cached with its expiry. The n-th
\* Authenticate call issues access token n.
AuthSucceed(g) ==
    /\ pc[g] = "auth"
    /\ \E l \in Lifetimes :
          LET result == AuthResult(authCalls, l) IN
          /\ tokenCache' = result
          /\ tokenExpiresAt' = now + ExpiresInAfterMargin(l)
          /\ issuedAt' = now
          /\ res' = [res EXCEPT ![g] = [token |-> result, err |-> FALSE]]
    /\ pc' = [pc EXCEPT ![g] = "tokDone"]
    /\ rwWriter' = 0
    /\ UNCHANGED <<now, rwReaders, authCalls, call, scrape>>
    /\ UNCHANGED restVars

-----------------------------------------------------------------------------
(* The scrape: ThermiaCollector.Collect and collectInstallation *)

\* The register groups and event queries collectInstallation fetches, in order.
Fetches == <<"grpOperation", "grpStatus", "grpTemps", "grpTime", "grpHot",
             "activeEvents", "allEvents">>

FetchNames == {Fetches[i] : i \in 1..Len(Fetches)}

\* What a fetch gives: an error, a payload without the registers the
\* emitters look for, or a payload with them.
FetchOutcomes == {"err", "none", "data"}

\* The metric families collectInstallation emits.
Families == {"temperature", "online", "operation_mode", "operational_status",
             "power_status", "hot_water", "oper_time", "active_alerts",
             "archived_alerts"}

\* emitTemperatureMetrics: the status summary first, the registers as fallback.
emitTemperatureMetrics(statusTemps, grpTemps) ==
    IF statusTemps = "data" \/ grpTemps = "data" THEN {"temperature"} ELSE {}

\* emitStatusMetrics: thermia_online is always emitted.
emitStatusMetrics == {"online"}

\* emitModeMetrics
emitModeMetrics(grpOperation) ==
    IF grpOperation = "data" THEN {"operation_mode"} ELSE {}

\* emitOperationalStatusMetrics, on the payload's presence alone
emitOperationalStatusFamily(grpStatus) ==
    IF grpStatus = "data" THEN {"operational_status"} ELSE {}

\* emitPowerStatusMetrics
emitPowerStatusMetrics(grpStatus) ==
    IF grpStatus = "data" THEN {"power_status"} ELSE {}

\* emitHotWaterMetrics
emitHotWaterMetrics(grpHot) ==
    IF grpHot = "data" THEN {"hot_water"} ELSE {}

\* emitOperationalTimeMetrics
emitOperationalTimeMetrics(grpTime) ==
    IF grpTime = "data" THEN {"oper_time"} ELSE {}

\* emitAlertMetrics: both counts are always emitted (0 for a nil list).
emitAlertMetrics(activeEvents, allEvents) == {"active_alerts", "archived_alerts"}

\* A faulty variant of collectInstallation: a failed fetch ends the run.
FetchFailureAbortsRun(fetched) == \E f \in FetchNames : fetched[f] = "err"

\* Whether a failed register-group or event fetch ends collectInstallation.
FetchFailureAborts(fetched) == FALSE

\* collectInstallation: its requests, whether it returned early, what it emitted.
collectInstallation(infoOk, statusOk, statusTemps, fetched) ==
    IF ~infoOk
      THEN [aborted |-> TRUE, requests |-> {"info"}, emitted |-> {}]
    ELSE IF ~statusOk
      THEN [aborted |-> TRUE, requests |-> {"info", "status"}, emitted |-> {}]
    ELSE IF FetchFailureAborts(fetched)
      THEN [aborted |-> TRUE,
            requests |-> {"info", "status", "registers", "events"},
            emitted |-> {}]
    ELSE [aborted |-> FALSE,
          requests |-> {"info", "status", "registers", "events"},
          emitted |->
              emitTemperatureMetrics(statusTemps, fetched["grpTemps"])
              \cup emitStatusMetrics
              \cup emitModeMetrics(fetched["grpOperation"])
              \cup emitOperationalStatusFamily(fetched["grpStatus"])
              \cup emitPowerStatusMetrics(fetched["grpStatus"])
              \cup emitHotWaterMetrics(fetched["grpHot"])
              \cup emitOperationalTimeMetrics(fetched["grpTime"])
              \cup emitAlertMetrics(fetched["activeEvents"], fetched["allEvents"])]

\* The payload combinations the concurrent model draws from: every fetch
\* failing, or every fetch giving data.
CoarseFetched == {[f \in FetchNames |-> o] : o \in {"err", "data"}}

\* A faulty variant of the token-failure branch: scrapeErrors is not touched.
TokenFailureNoInc(sc) == sc

\* What Collect does when getOrRefreshToken returned an error.
TokenFailureScrape(sc) == [sc EXCEPT !.errs = sc.errs + 1]

\* Collect: getOrRefreshToken failed. scrapeErrors.Inc(), and return.
CollectTokenFailed(g) ==
    /\ pc[g] = "tokDone"
    /\ res[g].err
    /\ scrape' = [scrape EXCEPT ![g] = TokenFailureScrape(scrape[g])]
    /\ pc' = [pc EXCEPT ![g] = "collected"]
    /\ UNCHANGED <<now, tokenCache, tokenExpiresAt, issuedAt, rwReaders,
                   rwWriter, res, authCalls, call>>
    /\ UNCHANGED restVars

\* Collect: api.NewAPIClient, which asks the configuration endpoint.
CollectNewClient(g) ==
    /\ pc[g] = "tokDone"
    /\ ~res[g].err
    /\ \E ok \in BOOLEAN :
          /\ scrape' = [scrape EXCEPT ![g] =
                 [@ EXCEPT !.requests = @ \cup {"configuration"},
                           !.errs = IF ok THEN @ ELSE @ + 1]]
          /\ pc' = [pc EXCEPT ![g] = IF ok THEN "getInst" ELSE "collected"]
    /\ UNCHANGED <<now, tokenCache, tokenExpiresAt, issuedAt, rwReaders,
                   rwWriter, res, authCalls, call>>
    /\ UNCHANGED restVars

\* Collect: apiClient.GetInstallations: an error, an empty list, or a list.
CollectGetInstallations(g) ==
    /\ pc[g] = "getInst"
    /\ \E outcome \in {"err", "empty", "list"} :
          /\ scrape' = [scrape EXCEPT ![g] =
                 [@ EXCEPT !.requests = @ \cup {"installations"},
                           !.errs = IF outcome = "err" THEN @ + 1 ELSE @]]
          /\ pc' = [pc EXCEPT ![g] =
                 IF outcome = "list" THEN "collectInst" ELSE "collected"]
    /\ UNCHANGED <<now, tokenCache, tokenExpiresAt, issuedAt, rwReaders,
                   rwWriter, res, authCalls, call>>
    /\ UNCHANGED restVars

\* Collect: collectInstallation for the first installation.
CollectInstallation(g) ==
    /\ pc[g] = "collectInst"
    /\ \E infoOk \in BOOLEAN, statusOk \in BOOLEAN,
          statusTemps \in {"none", "data"}, fetched \in CoarseFetched :
          LET r == collectInstallation(infoOk, statusOk, statusTemps, fetched) IN
          scrape' = [scrape EXCEPT ![g] =
                 [@ EXCEPT !.requests = @ \cup r.requests,
                           !.emitted = r.emitted # {}]]
    /\ pc' = [pc EXCEPT ![g] = "collected"]
    /\ UNCHANGED <<now, tokenCache, tokenExpiresAt, issuedAt, rwReaders,
                   rwWriter, res, authCalls, call>>
    /\ UNCHANGED restVars

\* Collect returns; the goroutine may serve the next scrape.
CollectReturn(g) ==
    /\ pc[g] = "collected"
    /\ pc' = [pc EXCEPT ![g] = "idle"]
    /\ res' = [res EXCEPT ![g] = NoReturn]
    /\ call' = [call EXCEPT ![g] = NoCall]
    /\ UNCHANGED <<now, tokenCache, tokenExpiresAt, issuedAt, rwReaders,
                   rwWriter, authCalls, scrape>>
    /\ UNCHANGED restVars

-----------------------------------------------------------------------------
(* Spec: the token cache under concurrent getOrRefreshToken calls *)

\* A caller asks for the token.
CallStart(g) == GetTokenStart(g) /\ UNCHANGED colVars

\* The caller takes the result; the goroutine may call again.
CallReturn(g) ==
    /\ pc[g] = "tokDone"
    /\ pc' = [pc EXCEPT ![g] = "idle"]
    /\ res' = [res EXCEPT ![g] = NoReturn]
    /\ call' = [call EXCEPT ![g] = NoCall]
    /\ UNCHANGED <<now, tokenCache, tokenExpiresAt, issuedAt, rwReaders,
                   rwWriter, authCalls, scrape>>
    /\ UNCHANGED restVars

Init ==
    /\ InitToken /\ InitCollect
    /\ IdleInstall /\ IdleAuth /\ IdlePick /\ IdleStatus /\ IdleMore

Next ==
    \/ Tick
    \/ \E g \in Callers :
          \/ CallStart(g)
          \/ RLock(g)
          \/ ReadCheck(g)
          \/ Lock(g)
          \/ DoubleCheck(g)
          \/ AuthFail(g)
          \/ AuthSucceed(g)
          \/ CallReturn(g)

Spec == Init /\ [][Next]_vars

-----------------------------------------------------------------------------
(* Properties of the token cache (Spec) *)

\* Every goroutine has a getOrRefreshToken result in hand, and all of these
\* calls started while the cache was missing or expired and before any of them
\* had completed a login (k Authenticate calls had returned at each start).
RaceDone(k) ==
    \A g \in Callers :
        /\ pc[g] = "tokDone"
        /\ call[g].startExp = 0
        /\ call[g].startAuth = k

C2_AtMostOneLogin ==
    /\ Cardinality({g \in Callers : pc[g] = "auth"}) <= 1
    /\ \A g \in Callers : pc[g] = "auth" => (rwWriter = g /\ rwReaders = {})

\* C2's case: one goroutine is authenticating while another waits for the lock.
C2_Witness ==
    \E g, h \in Callers : g # h /\ pc[g] = "auth" /\ pc[h] = "lock"

\* C3: the cached expiry is the issue time plus the reported lifetime minus
\* 300 seconds, and the issue time itself when the lifetime is below 300.
C3_ExpiryFloored ==
    tokenCache # Nil =>
        tokenExpiresAt = issuedAt +
            (IF tokenCache.ExpiresIn < SafetyMargin
                THEN 0 ELSE tokenCache.ExpiresIn - SafetyMargin)

\* C4: while a goroutine's Authenticate call is in progress nothing but its own
\* successful return changes the cache; a failed return hands the error (and
\* no token) to the caller, leaves token and expiry as they were and releases
\* the lock, so that the next call may authenticate; a successful return
\* caches the new token.
C4_FailedLoginKeepsCache ==
    [][\A g \in Callers :
          pc[g] = "auth" =>
              /\ (pc'[g] = "auth" \/ res'[g].err) =>
                    (tokenCache' = tokenCache /\ tokenExpiresAt' = tokenExpiresAt)
              /\ (pc'[g] = "tokDone" /\ res'[g].err) =>
                    (res'[g].token = Nil /\ rwWriter' = 0)
              /\ (pc'[g] = "tokDone" /\ ~res'[g].err) =>
                    (tokenCache' = res'[g].token /\ tokenCache' # Nil)]_vars

\* C4's case: the first login failed, a caller still holds that error, and the
\* second login succeeded and its token is in the cache.
C4_Witness ==
    /\ authCalls = 2
    /\ tokenCache.AccessToken = 2
    /\ \E g \in Callers : pc[g] = "tokDone" /\ res[g].err

\* C5: a call that starts while a cached token is unexpired and is served
\* before that expiry never takes the locked path, gets exactly the cached
\* token, and no Authenticate call is begun by anyone in the meantime.
C5_ReuseUntilExpiry ==
    \A g \in Callers :
        (pc[g] # "idle" /\ now < call[g].startExp) =>
            /\ pc[g] \in {"rlock", "rcheck", "tokDone"}
            /\ authCalls = call[g].startAuth
            /\ tokenExpiresAt = call[g].startExp
            /\ pc[g] = "tokDone" => res[g] = [token |-> tokenCache, err |-> FALSE]

\* C5's case: a call that began with an unexpired token has returned before
\* the expiry, while another goroutine that found the cache expired earlier is
\* only now at its double check.
C5_Witness ==
    \E g, h \in Callers :
        /\ pc[g] = "tokDone" /\ now < call[g].startExp
        /\ pc[h] = "dcheck" /\ call[h].startExp = 0

-----------------------------------------------------------------------------
(* SpecLive: the token cache under fair scheduling *)

\* The calls under way that have not reached Authenticate: each of them may
\* still need one Authenticate call.
Pending == {g \in Callers : pc[g] \in {"rlock", "rcheck", "lock", "dcheck"}}

\* A caller asks for the token; a call begins only while the Authenticate
\* calls the model counts suffice for every call under way, so that no call
\* is stopped by the bound of the model.
LiveStart(g) ==
    /\ authCalls + Cardinality(Pending) < MaxAuth
    /\ CallStart(g)

InitLive ==
    /\ InitToken /\ InitCollect
    /\ IdleInstall /\ IdleAuth /\ IdlePick /\ IdleStatus /\ IdleMore

NextLive ==
    \/ Tick
    \/ \E g \in Callers :
          \/ LiveStart(g)
          \/ RLock(g)
          \/ ReadCheck(g)
          \/ Lock(g)
          \/ DoubleCheck(g)
          \/ AuthFail(g)
          \/ AuthSucceed(g)
          \/ CallReturn(g)

\* A goroutine that is runnable runs, and every Authenticate call returns
\* (weak fairness). sync.RWMutex starves neither side: a blocked Lock keeps
\* new readers out, and the readers blocked during a write are let in when
\* it ends, so a goroutine waiting in Lock or RLock gets the lock if it is
\* free again and again (strong fairness). The clock and the callers are
\* under no obligation: time may stand still and a caller need not call.
FairLive ==
    \A g \in Callers :
        /\ SF_vars(RLock(g))
        /\ WF_vars(ReadCheck(g))
        /\ SF_vars(Lock(g))
        /\ WF_vars(DoubleCheck(g))
        /\ WF_vars(AuthFail(g) \/ AuthSucceed(g))

SpecLive == InitLive /\ [][NextLive]_vars /\ FairLive

-----------------------------------------------------------------------------
(* Properties of the token cache under fair scheduling (SpecLive) *)

\* The call of g has returned a token or an error.
Returned(g) ==
    /\ pc[g] = "tokDone"
    /\ res[g].err \/ res[g].token # Nil

\* C26: every getOrRefreshToken call returns a token or an error, given that
\* every Authenticate call returns; and a caller waiting for the exclusive
\* lock gets it, whoever holds it and whether or not that holder's login
\* fails, and then makes its own check and, if need be, its own login.
C26_EveryCallReturns ==
    \A g \in Callers :
        /\ (pc[g] # "idle") ~> Returned(g)
        /\ (pc[g] = "lock") ~> (pc[g] = "dcheck" /\ rwWriter = g)

\* C26's case: a login failed and its caller has the error, and the caller
\* that waited for the lock meanwhile is now making its own login.
C26_Witness ==
    \E g, h \in Callers :
        /\ g # h
        /\ pc[g] = "tokDone" /\ res[g].err
        /\ pc[h] = "auth" /\ rwWriter = h
        /\ call[h].startAuth = 0

-----------------------------------------------------------------------------
(* SpecCollect: one goroutine serving scrape after scrape *)

Scraper == 1

\* Collect begins (a fresh channel) and calls getOrRefreshToken.
CollectStart(g) ==
    /\ GetTokenStart(g)
    /\ scrape' = [scrape EXCEPT ![g] = NoScrape]

NextCollect ==
    \/ Tick
    \/ CollectStart(Scraper)
    \/ RLock(Scraper)
    \/ ReadCheck(Scraper)
    \/ Lock(Scraper)
    \/ DoubleCheck(Scraper)
    \/ AuthFail(Scraper)
    \/ AuthSucceed(Scraper)
    \/ CollectTokenFailed(Scraper)
    \/ CollectNewClient(Scraper)
    \/ CollectGetInstallations(Scraper)
    \/ CollectInstallation(Scraper)
    \/ CollectReturn(Scraper)

SpecCollect == Init /\ [][NextCollect]_vars

-----------------------------------------------------------------------------
(* Properties of the scrape (SpecCollect) *)

\* C7: when getOrRefreshToken failed, the scrape ends having incremented the
\* scrape-error counter exactly once, made no API request and emitted no
\* device metric.
C7_TokenFailureAbortsScrape ==
    \A g \in Callers :
        (pc[g] = "collected" /\ res[g].err) =>
            scrape[g] = [errs |-> 1, requests |-> {}, emitted |-> FALSE]

\* C7's case: a scrape whose token acquisition failed is about to return.
C7_Witness == pc[Scraper] = "collected" /\ res[Scraper].err

\* The scrape of g is over and has emitted no device metric.
EndedSilent(g) == pc[g] = "collected" /\ ~scrape[g].emitted

\* C28: every Collect invocation that ends without a device metric (token
\* failure, API client failure, installation list failure, empty list,
\* installation info or status failure) has incremented the scrape-error
\* counter exactly once.
C28_SilentScrapeCountedOnce ==
    \A g \in Callers : EndedSilent(g) => scrape[g].errs = 1

-----------------------------------------------------------------------------
(* SpecInstall: collectInstallation over every combination of outcomes *)

\* The outcomes of the info and status requests, whether the status summary
\* carries a temperature, and the outcome of each group fetch and event query.
InstallInputs ==
    {[infoOk |-> a, statusOk |-> b, statusTemps |-> t, fetched |-> f,
      ran |-> FALSE, out |-> NoInstall.out] :
        a \in BOOLEAN, b \in BOOLEAN, t \in {"none", "data"},
        f \in [FetchNames -> FetchOutcomes]}

InitInstall ==
    /\ InitToken /\ InitCollect /\ IdleAuth /\ IdlePick /\ IdleStatus
    /\ IdleMore
    /\ install \in InstallInputs

\* collectInstallation runs against the drawn outcomes.
RunCollectInstallation ==
    /\ ~install.ran
    /\ install' = [install EXCEPT
           !.ran = TRUE,
           !.out = collectInstallation(install.infoOk, install.statusOk,
                                       install.statusTemps, install.fetched)]
    /\ UNCHANGED <<tokVars, colVars, authVars, pickVars, statVars,
                   moreVars>>

NextInstall == RunCollectInstallation

SpecInstall == InitInstall /\ [][NextInstall]_vars

-----------------------------------------------------------------------------
(* Properties of collectInstallation (SpecInstall) *)

\* The metric families whose readings are decoded from each fetch.
DerivedFrom ==
    [f \in FetchNames |->
        CASE f = "grpOperation" -> {"operation_mode"}
          [] f = "grpStatus"    -> {"operational_status", "power_status"}
          [] f = "grpTemps"     -> {"temperature"}
          [] f = "grpTime"      -> {"oper_time"}
          [] f = "grpHot"       -> {"hot_water"}
          [] f = "activeEvents" -> {"active_alerts"}
          [] f = "allEvents"    -> {"archived_alerts"}]

\* C8: once the info and status requests have succeeded, whatever subset of
\* the seven fetches fails, collectInstallation does not return early, makes
\* all its requests, emits the families of every fetch that delivered data,
\* and each family it leaves out belongs to a fetch that failed or delivered
\* none of the registers the family is decoded from.
C8_PartialDataStillEmitted ==
    (install.ran /\ install.infoOk /\ install.statusOk) =>
        /\ ~install.out.aborted
        /\ install.out.requests = {"info", "status", "registers", "events"}
        /\ \A f \in FetchNames :
              install.fetched[f] = "data" => DerivedFrom[f] \subseteq install.out.emitted
        /\ \A fam \in Families \ install.out.emitted :
              \E f \in FetchNames :
                  fam \in DerivedFrom[f] /\ install.fetched[f] # "data"

\* C8's case: the status registers and the active-events query failed, the
\* hot-water and time registers came through, and their families are out.
C8_Witness ==
    /\ install.ran /\ install.infoOk /\ install.statusOk
    /\ install.fetched["grpStatus"] = "err"
    /\ install.fetched["activeEvents"] = "err"
    /\ install.fetched["grpHot"] = "data"
    /\ install.fetched["grpTime"] = "data"
    /\ {"hot_water", "oper_time"} \subseteq install.out.emitted
    /\ "operational_status" \notin install.out.emitted

-----------------------------------------------------------------------------
(* SpecAuth: one Authenticate call against every server behaviour *)

\* The transaction ids a SETTINGS blob may carry.
TransIds == {"StateProperties=sp1", "tx=sp2", "sp1", "a=b=c", ""}

\* The authorize page: whether `var SETTINGS = ...};` is found in it, whether
\* the blob is JSON, and the blob's transId and csrf.
AuthorizePages ==
    {[found |-> FALSE, json |-> FALSE, transId |-> "", csrf |-> ""],
     [found |-> TRUE, json |-> FALSE, transId |-> "", csrf |-> ""]}
    \cup {[found |-> TRUE, json |-> TRUE, transId |-> t, csrf |-> "csrf1"] :
             t \in TransIds}

\* What the authorize request gives: a transport error, or a page together
\* with the code parameter of the final URL.
AuthorizeResponses ==
    {NoResponse} \cup
    {[received |-> TRUE, found |-> pg.found, json |-> pg.json,
      transId |-> pg.transId, csrf |-> pg.csrf, code |-> c] :
         pg \in AuthorizePages, c \in {"", "c0"}}

\* A faulty variant of the code test: the URL's code is never seen.
HasCodeNever(code) == FALSE

\* code != ""
HasCode(code) == code # ""

\* startAuthorize made to look at the final URL's code before the page.
startAuthorizeCodeFirst(r) ==
    IF ~r.received THEN [state |-> NilState, err |-> "transport"]
    ELSE IF HasCode(r.code)
      THEN [state |-> [NilState EXCEPT !.Code = r.code], err |-> ""]
    ELSE IF ~r.found
      THEN [state |-> NilState, err |-> "SETTINGS JSON not found in response"]
    ELSE IF ~r.json THEN [state |-> NilState, err |-> "parse settings"]
    ELSE LET parts == Split(r.transId, "=") IN
         IF Len(parts) # 2
           THEN [state |-> NilState, err |-> "unexpected transId format"]
         ELSE [state |-> [Code |-> "", CSRF |-> r.csrf, StateProps |-> parts[2]],
               err |-> errNeedSelfAsserted]

\* startAuthorize, from the response on: the authState and the error.
startAuthorize(r) ==
    IF ~r.received THEN [state |-> NilState, err |-> "transport"]
    ELSE IF ~r.found
      THEN [state |-> NilState, err |-> "SETTINGS JSON not found in response"]
    ELSE IF ~r.json THEN [state |-> NilState, err |-> "parse settings"]
    ELSE LET parts == Split(r.transId, "=") IN
         IF Len(parts) # 2
           THEN [state |-> NilState, err |-> "unexpected transId format"]
         ELSE LET state == [Code |-> "", CSRF |-> r.csrf, StateProps |-> parts[2]] IN
              IF HasCode(r.code)
                THEN [state |-> [state EXCEPT !.Code = r.code], err |-> ""]
                ELSE [state |-> state, err |-> errNeedSelfAsserted]

\* What the self-asserted POST gives.
SelfResponses ==
    {NoSelfResponse} \cup
    {[received |-> TRUE, status |-> st, says400 |-> b] :
         st \in {200, 204, 302, 400}, b \in BOOLEAN}

\* A faulty variant of doSelfAsserted: the body is not looked at.
doSelfAssertedStatusOnly(r) ==
    IF ~r.received THEN "transport"
    ELSE IF r.status \div 100 # 2 THEN "self-asserted failed"
    ELSE ""

\* doSelfAsserted, from the response on: the error ("" for nil).
doSelfAsserted(r) ==
    IF ~r.received THEN "transport"
    ELSE IF r.status \div 100 # 2 \/ r.says400 THEN "self-asserted failed"
    ELSE ""

\* Final URLs of the confirm step's requests.
ConfirmURLs(codes) ==
    {[base |-> b, code |-> c] :
        b \in {redirectURI, "https://thermialogin.b2clogin.com/confirmed"},
        c \in codes}

\* What a request of the confirm step gives.
HopResponses(codes) ==
    {NoHopResponse} \cup
    {[received |-> TRUE, url |-> u] : u \in ConfirmURLs(codes)}

\* A faulty variant of the code lookup: any final URL's code is taken.
CallbackCodeAnywhere(u) == u.code

\* The code of a final URL under the redirect URI, "" otherwise.
CallbackCode(u) ==
    IF HasPrefix(URLString(u), redirectURI) THEN u.code ELSE ""

\* confirmAndGetCode, from the first response on; r2 answers the second
\* request if it is made.
\* confirmAndGetCode made to go on to the second request after the first one
\* failed.
confirmAndGetCodeRetrying(r1, r2) ==
    IF r1.received /\ CallbackCode(r1.url) # ""
      THEN [code |-> CallbackCode(r1.url), err |-> "", hops |-> 1]
    ELSE IF ~r2.received THEN [code |-> "", err |-> "transport", hops |-> 2]
    ELSE IF CallbackCode(r2.url) # ""
      THEN [code |-> CallbackCode(r2.url), err |-> "", hops |-> 2]
    ELSE [code |-> "", err |-> "no authorization code returned", hops |-> 2]

confirmAndGetCode(r1, r2) ==
    IF ~r1.received THEN [code |-> "", err |-> "transport", hops |-> 1]
    ELSE IF CallbackCode(r1.url) # ""
      THEN [code |-> CallbackCode(r1.url), err |-> "", hops |-> 1]
    ELSE IF ~r2.received THEN [code |-> "", err |-> "transport", hops |-> 2]
    ELSE IF CallbackCode(r2.url) # ""
      THEN [code |-> CallbackCode(r2.url), err |-> "", hops |-> 2]
    ELSE [code |-> "", err |-> "no authorization code returned", hops |-> 2]

\* The bodies the token endpoint answers with, and what json.Unmarshal
\* makes of each: whether it parses, and its access_token and expires_in.
TokenBodies ==
    {[body |-> "{\"access_token\":\"tok\",\"expires_in\":3600}",
      json |-> TRUE, accessToken |-> "tok", expiresIn |-> 3600],
     [body |-> "{\"access_token\":\"\",\"expires_in\":3600}",
      json |-> TRUE, accessToken |-> "", expiresIn |-> 3600],
     [body |-> "{\"error\":\"invalid_grant\"}",
      json |-> TRUE, accessToken |-> "", expiresIn |-> 0],
     [body |-> "Bad Gateway",
      json |-> FALSE, accessToken |-> "", expiresIn |-> 0]}

\* What the token POST gives.
TokenResponses ==
    {NoTokenResponse} \cup
    {[received |-> TRUE, status |-> st, body |-> b.body, json |-> b.json,
      accessToken |-> b.accessToken, expiresIn |-> b.expiresIn] :
         st \in {200, 400}, b \in TokenBodies}

RECURSIVE Itoa(_)
\* The decimal digits of a natural number (the %d of fmt.Errorf).
Itoa(n) ==
    IF n < 10 THEN SubSeq(Digits, n + 1, n + 1)
    ELSE Itoa(n \div 10) \o SubSeq(Digits, (n % 10) + 1, (n % 10) + 1)

\* A faulty variant of exchangeCode: the status is not looked at.
exchangeCodeAnyStatus(r) ==
    IF ~r.received THEN [token |-> NoToken, err |-> "transport"]
    ELSE IF ~r.json THEN [token |-> NoToken, err |-> "parse token response"]
    ELSE IF r.accessToken = ""
      THEN [token |-> NoToken, err |-> "no access_token in response"]
    ELSE [token |-> [AccessToken |-> r.accessToken, ExpiresIn |-> r.expiresIn],
          err |-> ""]

\* exchangeCode, from the response on.
exchangeCode(r) ==
    IF ~r.received THEN [token |-> NoToken, err |-> "transport"]
    ELSE IF r.status # 200
      THEN [token |-> NoToken,
            err |-> "token endpoint returned " \o Itoa(r.status) \o ": "
                      \o r.body]
    ELSE IF ~r.json THEN [token |-> NoToken, err |-> "parse token response"]
    ELSE IF r.accessToken = ""
      THEN [token |-> NoToken, err |-> "no access_token in response"]
    ELSE [token |-> [AccessToken |-> r.accessToken, ExpiresIn |-> r.expiresIn],
          err |-> ""]

\* A request to an endpoint, with the state properties or code it carries.
Request(to, arg) == [to |-> to, arg |-> arg]

\* Authenticate returns an error.
Failed(wrapped) == [token |-> NoToken, err |-> wrapped]

\* Authenticate is called.
AuthenticateBegin ==
    /\ auth.step = "idle"
    /\ auth' = [auth EXCEPT !.step = "authorize"]
    /\ UNCHANGED <<tokVars, colVars, instVars, pickVars, statVars,
                   moreVars>>

\* Step 1: startAuthorize, and the branch Authenticate takes on its result.
AuthorizeStep ==
    /\ auth.step = "authorize"
    /\ \E r \in AuthorizeResponses :
          LET sa == startAuthorize(r)
              fatal == sa.err # "" /\ sa.err # errNeedSelfAsserted
          IN  auth' = [auth EXCEPT
                  !.reqs = Append(@, Request("authorize", "")),
                  !.authz = r,
                  !.state = sa.state,
                  !.step = IF fatal THEN "done"
                           ELSE IF sa.err = errNeedSelfAsserted
                             THEN "selfAsserted" ELSE "exchange",
                  !.out = IF fatal THEN Failed("start authorize: " \o sa.err)
                          ELSE @]
    /\ UNCHANGED <<tokVars, colVars, instVars, pickVars, statVars,
                   moreVars>>

\* Step 2: doSelfAsserted.
SelfAssertedStep ==
    /\ auth.step = "selfAsserted"
    /\ \E r \in SelfResponses :
          LET err == doSelfAsserted(r)
          IN  auth' = [auth EXCEPT
                  !.reqs = Append(@, Request("selfAsserted", auth.state.StateProps)),
                  !.self = r,
                  !.step = IF err # "" THEN "done" ELSE "confirm",
                  !.out = IF err # "" THEN Failed("self-asserted: " \o err)
                          ELSE @]
    /\ UNCHANGED <<tokVars, colVars, instVars, pickVars, statVars,
                   moreVars>>

\* Step 3: confirmAndGetCode.
ConfirmStep ==
    /\ auth.step = "confirm"
    /\ \E r1 \in HopResponses({"", "c1"}), r2 \in HopResponses({"", "c2"}) :
          LET cf == confirmAndGetCode(r1, r2)
              first == Append(auth.reqs, Request("confirm", auth.state.StateProps))
          IN  auth' = [auth EXCEPT
                  !.reqs = IF cf.hops = 2
                             THEN Append(first, Request("redirect", ""))
                             ELSE first,
                  !.hop1 = r1,
                  !.hop2 = IF cf.hops = 2 THEN r2 ELSE @,
                  !.state = [@ EXCEPT !.Code = cf.code],
                  !.step = IF cf.err # "" THEN "done" ELSE "exchange",
                  !.out = IF cf.err # "" THEN Failed("confirm: " \o cf.err)
                          ELSE @]
    /\ UNCHANGED <<tokVars, colVars, instVars, pickVars, statVars,
                   moreVars>>

\* Step 4: exchangeCode; Authenticate returns its result.
ExchangeStep ==
    /\ auth.step = "exchange"
    /\ \E r \in TokenResponses :
          LET ex == exchangeCode(r)
          IN  auth' = [auth EXCEPT
                  !.reqs = Append(@, Request("token", auth.state.Code)),
                  !.tokenResponse = r,
                  !.step = "done",
                  !.out = IF ex.err # "" THEN Failed("exchange code: " \o ex.err)
                          ELSE ex]
    /\ UNCHANGED <<tokVars, colVars, instVars, pickVars, statVars,
                   moreVars>>

InitAuth ==
    /\ InitToken /\ InitCollect
    /\ IdleInstall /\ IdleAuth /\ IdlePick /\ IdleStatus /\ IdleMore

NextAuth ==
    \/ AuthenticateBegin
    \/ AuthorizeStep
    \/ SelfAssertedStep
    \/ ConfirmStep
    \/ ExchangeStep

SpecAuth == InitAuth /\ [][NextAuth]_vars

-----------------------------------------------------------------------------
(* Properties of Authenticate (SpecAuth) *)

\* The endpoints requested so far, in order.
Endpoints == [i \in 1..Len(auth.reqs) |-> auth.reqs[i].to]

\* The number of requests an endpoint has received in this call.
Requests(to) == Cardinality({i \in 1..Len(auth.reqs) : auth.reqs[i].to = to})

\* The authorize response arrived and its final URL carries a code.
CodeCarried == auth.authz.received /\ auth.authz.code # ""

\* The authorize page has a SETTINGS blob that is JSON and whose transaction
\* id holds exactly one "=".
WellFormedSettings ==
    /\ auth.authz.found
    /\ auth.authz.json
    /\ Cardinality({i \in 1..Len(auth.authz.transId) :
                       SubSeq(auth.authz.transId, i, i) = "="}) = 1

\* The call is about to make, or has made, its token request right after the
\* authorize request, with the code the authorize URL carried.
StraightToExchange ==
    \/ auth.step = "exchange" /\ Endpoints = <<"authorize">>
                              /\ auth.state.Code = auth.authz.code
    \/ auth.step = "done" /\ auth.reqs = <<Request("authorize", ""),
                                           Request("token", auth.authz.code)>>

\* C6, as stated: when the authorize response's final URL carries a code, the
\* self-asserted and confirmation endpoints receive no request in the call
\* and the flow goes from the authorize step directly to token exchange.
C6_ShortCircuit ==
    CodeCarried =>
        /\ Requests("selfAsserted") = 0
        /\ Requests("confirm") = 0
        /\ Requests("redirect") = 0
        /\ StraightToExchange

\* C6, amended: when the authorize response's final URL carries a code, the
\* self-asserted and confirmation endpoints receive no request in the call;
\* the flow goes directly to token exchange provided the page yielded a JSON
\* SETTINGS blob with a well-formed transaction id, and otherwise the call
\* has failed at the authorize step with no further request.
C6_ShortCircuitWhenParsed ==
    CodeCarried =>
        /\ Requests("selfAsserted") = 0
        /\ Requests("confirm") = 0
        /\ Requests("redirect") = 0
        /\ IF WellFormedSettings
             THEN StraightToExchange
             ELSE /\ auth.step = "done"
                  /\ auth.out.err # ""
                  /\ Endpoints = <<"authorize">>

\* C6's case: the authorize URL carried a code, and the call has obtained its
\* token with two requests.
C6_Witness ==
    /\ CodeCarried
    /\ auth.step = "done"
    /\ auth.out.err = ""
    /\ Endpoints = <<"authorize", "token">>

\* The authorize response arrived with a SETTINGS blob whose transaction id
\* has two parts.
SettingsUsable == auth.authz.received /\ WellFormedSettings

\* The part of the transaction id after the "=", written out by hand.
HandStateProps(transId) ==
    CASE transId = "StateProperties=sp1" -> "sp1"
      [] transId = "tx=sp2"              -> "sp2"
      [] OTHER                           -> ""

\* C18: Authenticate fails without a self-asserted, confirmation or token
\* request whenever the authorize response has no SETTINGS blob or the
\* blob's transaction id does not split on "=" into exactly two parts;
\* otherwise the part after the "=" is the state-properties string of the
\* later steps.
C18_SettingsShapeIsFatal ==
    Requests("authorize") = 1 =>
      IF ~SettingsUsable
        THEN /\ auth.step = "done"
             /\ auth.out.token = NoToken
             /\ HasPrefix(auth.out.err, "start authorize: ")
             /\ Endpoints = <<"authorize">>
      ELSE /\ auth.state.StateProps = HandStateProps(auth.authz.transId)
           /\ auth.state.StateProps # ""
           /\ \A i \in 1..Len(auth.reqs) :
                auth.reqs[i].to \in {"selfAsserted", "confirm"}
                => auth.reqs[i].arg = HandStateProps(auth.authz.transId)

\* A transaction id with two "=" has made the call fail after its authorize
\* request.
C18_Witness ==
    /\ auth.authz.received
    /\ auth.authz.json
    /\ auth.authz.transId = "a=b=c"
    /\ auth.step = "done"
    /\ auth.out.err = "start authorize: unexpected transId format"
    /\ Endpoints = <<"authorize">>

\* The self-asserted submission was answered with a rejection.
SelfRejected ==
    /\ auth.self.received
    /\ \/ auth.self.status < 200
       \/ auth.self.status > 299
       \/ auth.self.says400

\* C19: when the self-asserted submission returns a non-2xx status, or a 2xx
\* status whose body contains "status":"400", Authenticate fails and neither
\* the confirmation endpoint nor the token endpoint receives a request.
C19_RejectedLoginStops ==
    SelfRejected =>
      /\ auth.step = "done"
      /\ auth.out.token = NoToken
      /\ HasPrefix(auth.out.err, "self-asserted: ")
      /\ Requests("confirm") = 0
      /\ Requests("redirect") = 0
      /\ Requests("token") = 0

\* A 200 response whose body says "status":"400" has ended the call.
C19_Witness ==
    /\ auth.self.received
    /\ auth.self.status = 200
    /\ auth.self.says400
    /\ auth.step = "done"
    /\ Endpoints = <<"authorize", "selfAsserted">>

\* The first request of the confirm step has been answered.
FirstHopAnswered == Requests("confirm") = 1 /\ auth.hop1.received

\* The final URL is under the redirect URI.
UnderRedirectURI(u) == u.base = redirectURI

\* The code a hop yields: that of a final URL under the redirect URI.
Yields(hop) ==
    IF hop.received /\ UnderRedirectURI(hop.url) THEN hop.url.code ELSE ""

\* The confirm step has failed for want of a code.
NoCodeReturned ==
    /\ auth.step = "done"
    /\ auth.out.err = "confirm: no authorization code returned"

\* C20 as stated: the additional request is made if and only if the first
\* response's final URL is not yet under the redirect URI; the step returns
\* the code of the first hop or else of the second, and fails with a
\* no-authorization-code error when neither hop carries a code.
C20_SecondHopIffNotUnderRedirect ==
    FirstHopAnswered =>
      /\ Requests("redirect") = 1 <=> ~UnderRedirectURI(auth.hop1.url)
      /\ Yields(auth.hop1) # "" => auth.state.Code = Yields(auth.hop1)
      /\ (Yields(auth.hop1) = "" /\ Yields(auth.hop2) # "")
         => auth.state.Code = Yields(auth.hop2)
      /\ (auth.hop1.url.code = "" /\ auth.hop2.received
          /\ auth.hop2.url.code = "") => NoCodeReturned

\* C20, amended: the additional request is made if and only if the first
\* response did not yield a code, its final URL being not yet under the
\* redirect URI or carrying no code; the step returns the code of the first
\* hop or else of the second, and fails with a no-authorization-code error
\* when neither hop yields one.
C20_SecondHopIffNoCodeYet ==
    FirstHopAnswered =>
      /\ Requests("redirect") = 1 <=>
           (~UnderRedirectURI(auth.hop1.url) \/ auth.hop1.url.code = "")
      /\ Requests("redirect") <= 1
      /\ Yields(auth.hop1) # "" => auth.state.Code = Yields(auth.hop1)
      /\ (Yields(auth.hop1) = "" /\ Yields(auth.hop2) # "")
         => auth.state.Code = Yields(auth.hop2)
      /\ (Yields(auth.hop1) = "" /\ auth.hop2.received
          /\ Yields(auth.hop2) = "") => NoCodeReturned

\* The first hop ended under the redirect URI without a code, and the second
\* request brought the code.
C20_Witness ==
    /\ FirstHopAnswered
    /\ UnderRedirectURI(auth.hop1.url)
    /\ auth.hop1.url.code = ""
    /\ Requests("redirect") = 1
    /\ Yields(auth.hop2) = "c2"
    /\ auth.state.Code = "c2"

\* The token endpoint has answered.
TokenAnswered == Requests("token") = 1 /\ auth.tokenResponse.received

\* The status of a token response as the error message spells it, by hand.
HandStatus(r) == CASE r.status = 200 -> "200" [] r.status = 400 -> "400"

\* C21: Authenticate returns a result only after the token endpoint answered
\* with status 200 and a non-empty access token; a non-200 answer fails the
\* attempt with the response body in the error, and a 200 answer without an
\* access token fails the attempt, no AuthResult being returned.
C21_TokenOnlyFrom200 ==
    /\ auth.out.token # NoToken =>
         /\ TokenAnswered
         /\ auth.tokenResponse.status = 200
         /\ auth.tokenResponse.accessToken # ""
         /\ auth.out.token.AccessToken = auth.tokenResponse.accessToken
         /\ auth.out.err = ""
    /\ (TokenAnswered /\ auth.tokenResponse.status # 200) =>
         /\ auth.step = "done"
         /\ auth.out.token = NoToken
         /\ auth.out.err = "exchange code: token endpoint returned "
                             \o HandStatus(auth.tokenResponse) \o ": "
                             \o auth.tokenResponse.body
    /\ (TokenAnswered /\ auth.tokenResponse.status = 200
        /\ auth.tokenResponse.accessToken = "") =>
         /\ auth.step = "done"
         /\ auth.out.token = NoToken
         /\ auth.out.err # ""

\* A 400 answer whose body would parse to a token has failed the attempt.
C21_Witness ==
    /\ TokenAnswered
    /\ auth.tokenResponse.status = 400
    /\ auth.tokenResponse.accessToken = "tok"
    /\ auth.out.token = NoToken
    /\ auth.out.err = "exchange code: token endpoint returned 400: "
                        \o auth.tokenResponse.body

\* The requests of the call so far are the first n of the list.
StartOf(list) ==
    /\ Len(Endpoints) <= Len(list)
    /\ Endpoints = SubSeq(list, 1, Len(Endpoints))

\* The two orders in which Authenticate can reach its endpoints: straight
\* from the authorize page to the token endpoint, or through the login.
ShortPath == <<"authorize", "token">>

LongPath == <<"authorize", "selfAsserted", "confirm", "redirect", "token">>

LongPathOneHop == <<"authorize", "selfAsserted", "confirm", "token">>

\* Authenticate has returned an error wrapped by the named step.
FailedIn(stepPrefix) ==
    /\ auth.out.err # ""
    /\ HasPrefix(auth.out.err, stepPrefix)

\* C22: within one Authenticate call every endpoint is asked at most once
\* (the confirm step at most twice: the confirm request and one further
\* request), the requests go out in the order of the steps, a request that
\* failed is not repeated or followed by another, and a step that fails is
\* the last one of the call: the call is over and its last request is that
\* step's.
C22_NoStepRetried ==
    /\ Requests("authorize") <= 1
    /\ Requests("selfAsserted") <= 1
    /\ Requests("token") <= 1
    /\ Requests("confirm") + Requests("redirect") <= 2
    /\ StartOf(ShortPath) \/ StartOf(LongPath) \/ StartOf(LongPathOneHop)
    /\ auth.out.err # "" => auth.step = "done"
    /\ FailedIn("start authorize: ") => Endpoints = <<"authorize">>
    /\ FailedIn("self-asserted: ") => Endpoints = <<"authorize", "selfAsserted">>
    /\ FailedIn("confirm: ") =>
          /\ Requests("token") = 0
          /\ Endpoints[Len(Endpoints)] \in {"confirm", "redirect"}
          /\ ~auth.hop1.received => Requests("redirect") = 0
    /\ FailedIn("exchange code: ") => Endpoints[Len(Endpoints)] = "token"
    /\ auth.step = "done" /\ auth.out.err = "" =>
          Endpoints[Len(Endpoints)] = "token"

\* The confirm request failed in transport after a login that was accepted:
\* the call is over with three requests made and none to the token endpoint.
C22_Witness ==
    /\ auth.step = "done"
    /\ FailedIn("confirm: ")
    /\ ~auth.hop1.received
    /\ Endpoints = <<"authorize", "selfAsserted", "confirm">>

\* The call has left the authorize step for the token exchange: it is about
\* to send the token request, or has sent it, as its second request.
ShortCircuited ==
    \/ auth.step = "exchange" /\ Endpoints = <<"authorize">>
    \/ Len(Endpoints) >= 2 /\ Endpoints[2] = "token"

\* The authorize page has no SETTINGS blob, or one that is not JSON.
NoParsableSettings == ~auth.authz.found \/ ~auth.authz.json

\* C27: the call goes from the authorize step to the token exchange only
\* when the authorize page yielded a JSON SETTINGS blob whose transaction id
\* is well formed (and the final URL carried a code); when the final URL
\* carries a code and the page has no parsable SETTINGS blob, the call has
\* failed at the authorize step, with no token and no token request.
C27_ShortCircuitNeedsSettings ==
    /\ ShortCircuited => (WellFormedSettings /\ CodeCarried)
    /\ (CodeCarried /\ NoParsableSettings) =>
          /\ auth.step = "done"
          /\ auth.out.token = NoToken
          /\ auth.out.err \in {"start authorize: SETTINGS JSON not found in response",
                               "start authorize: parse settings"}
          /\ Requests("token") = 0
          /\ Endpoints = <<"authorize">>

\* C27's case: the final URL carried a code, the page held a SETTINGS blob
\* that is not JSON, and the call is over without a token request.
C27_Witness ==
    /\ CodeCarried
    /\ auth.authz.found /\ ~auth.authz.json
    /\ auth.step = "done"
    /\ auth.out.err = "start authorize: parse settings"
    /\ Requests("token") = 0

-----------------------------------------------------------------------------
(* SpecPick: pickCurrentStatus over lists of status labels *)

MaxRunning == 2

\* The labels a status register may name: the nine of the priority list, two
\* of them in another letter case as well, and two the list does not know.
StatusLabels ==
    {priority[i] : i \in 1..Len(priority)}
    \cup {"Status_No_Demand", "status_heat", "STATUS_DEFROST", "STATUS_COMPR"}

\* The sequences over S of length at most n.
SeqUpTo(S, n) == UNION {[1..k -> S] : k \in 0..n}

PickInputs ==
    {[running |-> r, available |-> a, ran |-> FALSE, out |-> ""] :
        r \in SeqUpTo(StatusLabels, MaxRunning),
        a \in {<<>>, <<"STATUS_STANDBY", "STATUS_HEAT">>}}

InitPick ==
    /\ InitToken /\ InitCollect /\ IdleInstall /\ IdleAuth /\ IdleStatus
    /\ IdleMore
    /\ pick \in PickInputs

\* pickCurrentStatus runs on the drawn lists.
RunPick ==
    /\ ~pick.ran
    /\ pick' = [pick EXCEPT
           !.ran = TRUE,
           !.out = pickCurrentStatus(pick.running, pick.available)]
    /\ UNCHANGED <<tokVars, colVars, instVars, authVars, statVars,
                   moreVars>>

NextPick == RunPick

SpecPick == InitPick /\ [][NextPick]_vars

-----------------------------------------------------------------------------
(* Properties of pickCurrentStatus (SpecPick) *)

\* The order of the labels, highest first.
RankedLabels ==
    <<"STATUS_LEGIONELLA", "STATUS_HOTWATER", "STATUS_HEAT", "STATUS_COOL",
      "STATUS_PASSIVE_COOL", "STATUS_POOL", "STATUS_STANDBY",
      "STATUS_NO_DEMAND", "OPERATION_MODE_OFF">>

\* The ranked label that a label is, letter case aside.
Canonical(l) ==
    CASE l = "Status_No_Demand" -> "STATUS_NO_DEMAND"
      [] l = "status_heat"      -> "STATUS_HEAT"
      [] OTHER                  -> l

\* The position of a label in the order, 0 for a label that has none.
Rank(l) ==
    IF \E i \in 1..Len(RankedLabels) : RankedLabels[i] = Canonical(l)
      THEN CHOOSE i \in 1..Len(RankedLabels) : RankedLabels[i] = Canonical(l)
      ELSE 0

\* The labels of the running list that count as present: STATUS_NO_DEMAND
\* only when nothing else is running.
Present(running) ==
    LET all == {running[i] : i \in 1..Len(running)}
        others == {l \in all : Canonical(l) # "STATUS_NO_DEMAND"}
    IN  IF others = {} THEN all ELSE others

\* pickCurrentStatus ran on the running labels given, in the order given.
Picked(running) == pick.ran /\ pick.running = running

\* C9: for a non-empty running list in which a ranked label is present, the
\* result is the present label of the highest rank, letter case aside and
\* whatever the order of the list; so {NO_DEMAND} gives NO_DEMAND,
\* {HEAT, NO_DEMAND} gives HEAT and {POOL, COOL} gives COOL.
C9_HighestPriorityPicked ==
    /\ (pick.ran /\ \E l \in Present(pick.running) : Rank(l) > 0) =>
          /\ Rank(pick.out) > 0
          /\ pick.out = RankedLabels[Rank(pick.out)]
          /\ \E l \in Present(pick.running) : Rank(l) = Rank(pick.out)
          /\ \A l \in Present(pick.running) :
                Rank(l) > 0 => Rank(pick.out) <= Rank(l)
    /\ Picked(<<"STATUS_NO_DEMAND">>) => pick.out = "STATUS_NO_DEMAND"
    /\ Picked(<<"STATUS_HEAT", "STATUS_NO_DEMAND">>) => pick.out = "STATUS_HEAT"
    /\ Picked(<<"STATUS_NO_DEMAND", "STATUS_HEAT">>) => pick.out = "STATUS_HEAT"
    /\ Picked(<<"STATUS_POOL", "STATUS_COOL">>) => pick.out = "STATUS_COOL"
    /\ Picked(<<"STATUS_COOL", "STATUS_POOL">>) => pick.out = "STATUS_COOL"

\* C9's case: POOL was seen before COOL and COOL was picked.
C9_Witness ==
    Picked(<<"STATUS_POOL", "STATUS_COOL">>) /\ pick.out = "STATUS_COOL"

\* No label of the priority list counts as present in the running list.
NoneRanked(running) == \A l \in Present(running) : Rank(l) = 0

\* The running labels that are not STATUS_NO_DEMAND in any letter case, in
\* the order of the list.
Demanding(running) ==
    SelectSeq(running, LAMBDA l : Canonical(l) # "STATUS_NO_DEMAND")

\* C23: when pickCurrentStatus ran on a non-empty running list in which no
\* label of the priority list is present, the result is the first label of
\* the list that is not STATUS_NO_DEMAND, spelled as in the list; on an empty
\* running list it is the first available label, and "" when the available
\* list is empty too.
C23_FallbackIsFirstInOrder ==
    pick.ran =>
      /\ (Len(pick.running) > 0 /\ NoneRanked(pick.running)) =>
            /\ Len(Demanding(pick.running)) > 0
            /\ pick.out = Demanding(pick.running)[1]
      /\ (Len(pick.running) = 0 /\ Len(pick.available) > 0) =>
            pick.out = pick.available[1]
      /\ (Len(pick.running) = 0 /\ Len(pick.available) = 0) =>
            pick.out = ""

\* C23's case: the list opens with STATUS_NO_DEMAND, the label after it is
\* unknown to the priority list, and that label was picked.
C23_Witness ==
    /\ Picked(<<"STATUS_NO_DEMAND", "STATUS_DEFROST">>)
    /\ pick.out = "STATUS_DEFROST"

-----------------------------------------------------------------------------
(* SpecStatus: emitOperationalStatusMetrics over status register groups *)

MaxValueNames == 3

\* The entries a status register's ValueNames table is made of: ranked
\* statuses on bits 1, 2 and 4 (one of them spelt in lower case), an unranked
\* one on bit 8, a second name for STATUS_HEAT, and a hidden entry.
ValueEntries ==
    {[Name |-> "REG_VALUE_STATUS_HEAT",      Value |-> 1, Visible |-> TRUE],
     [Name |-> "REG_VALUE_STATUS_NO_DEMAND", Value |-> 4, Visible |-> TRUE],
     [Name |-> "COMP_VALUE_STATUS_DEFROST",  Value |-> 8, Visible |-> TRUE],
     [Name |-> "COMP_VALUE_STATUS_HEAT",     Value |-> 4, Visible |-> TRUE],
     [Name |-> "REG_VALUE_status_pool",      Value |-> 2, Visible |-> TRUE],
     [Name |-> "REG_VALUE_STATUS_COOL",      Value |-> 1, Visible |-> FALSE]}

\* Register values: none, 0, 1, 3, 4.99999 and -2.
StatusValues ==
    {NilValue} \cup {Float(x) : x \in {0, 100000, 300000, 499999, -200000}}

\* A register of the group.
GroupItem(name, value, valueNames) ==
    [RegisterName |-> name, RegisterValue |-> value, ValueNames |-> valueNames]

\* A register of a lower-ranked candidate name, with its own table and value.
OtherCandidate ==
    GroupItem("COMP_STATUS_ITEC", Float(100000),
              <<[Name |-> "COMP_VALUE_STATUS_STANDBY", Value |-> 1,
                 Visible |-> TRUE]>>)

\* The status groups: one register under a candidate name or another name,
\* alone or next to a register of a lower-ranked candidate name.
StatusGroups ==
    LET mains == {GroupItem(n, v, t) :
                     n \in {"COMP_STATUS", "REG_OPERATIONMODE"},
                     v \in StatusValues,
                     t \in SeqUpTo(ValueEntries, MaxValueNames)}
    IN  {<<mn>> : mn \in mains} \cup {<<OtherCandidate, mn>> : mn \in mains}

StatusInputs ==
    {[grpStatus |-> g, ran |-> FALSE, out |-> NoStatus.out] : g \in StatusGroups}

InitStatus ==
    /\ InitToken /\ InitCollect /\ IdleInstall /\ IdleAuth /\ IdlePick
    /\ IdleMore
    /\ stat \in StatusInputs

\* emitOperationalStatusMetrics runs on the drawn group.
RunEmitOperationalStatus ==
    /\ ~stat.ran
    /\ stat' = [stat EXCEPT
           !.ran = TRUE,
           !.out = emitOperationalStatusMetrics(stat.grpStatus)]
    /\ UNCHANGED <<tokVars, colVars, instVars, authVars, pickVars,
                   moreVars>>

NextStatus == RunEmitOperationalStatus

SpecStatus == InitStatus /\ [][NextStatus]_vars

-----------------------------------------------------------------------------
(* Properties of the operational-status series (SpecStatus) *)

\* The labels emitted in thermia_operational_status_running with a value.
EmittedWith(v) ==
    {stat.out.running[i].status :
        i \in {j \in 1..Len(stat.out.running) : stat.out.running[j].value = v}}

\* The labels emitted in thermia_operational_status_available.
AvailableLabels == {stat.out.available[i] : i \in 1..Len(stat.out.available)}

\* The register the series were decoded from has more than one bit of its
\* visible statuses set.
SeveralBitsSet ==
    \E i, j \in 1..Len(stat.grpStatus[1].ValueNames) :
        LET vi == stat.grpStatus[1].ValueNames[i]
            vj == stat.grpStatus[1].ValueNames[j]
        IN  /\ vi.Visible /\ vj.Visible /\ vi.Value # vj.Value
            /\ stat.grpStatus[1].RegisterValue = Float(300000)
            /\ vi.Value \in {1, 2} /\ vj.Value \in {1, 2}

-----------------------------------------------------------------------------
(* ExtractBitmaskStatuses, run on its own: SpecBitmask *)

MaxRegisters == 2

\* The table of the mapper's unit test (codes 1, 2 and 4, and a hidden entry
\* on 8), with one name of each prefix and one without any.
BitTableA ==
    <<[Name |-> "COMP_VALUE_STATUS_A", Value |-> 1, Visible |-> TRUE],
      [Name |-> "REG_VALUE_STATUS_B",  Value |-> 2, Visible |-> TRUE],
      [Name |-> "STATUS_C",            Value |-> 4, Visible |-> TRUE],
      [Name |-> "REG_VALUE_HIDDEN",    Value |-> 8, Visible |-> FALSE]>>

\* A table with a code of two bits and a name carrying both prefixes.
BitTableB ==
    <<[Name |-> "REG_VALUE_COMP_VALUE_X", Value |-> 3, Visible |-> TRUE],
      [Name |-> "COMP_VALUE_Y",           Value |-> 4, Visible |-> TRUE]>>

\* Register values: none, 5.0, 4.99999, 2.0 and 12.0.
BitValues ==
    {NilValue} \cup {Float(x) : x \in {500000, 499999, 200000, 1200000}}

BitRegisters ==
    {GroupItem(n, v, t) :
        n \in {"COMP_STATUS", "COMP_STATUS_ITEC", "REG_OPERATIONMODE"},
        v \in BitValues,
        t \in {BitTableA, BitTableB}}

\* The candidate lists handed to the function: the operational one, and two
\* that rank the names the other way round or know one name only.
CandidateLists ==
    {OperationalStatusCandidates, <<"COMP_STATUS_ITEC", "COMP_STATUS">>,
     <<"REG_OPERATIONMODE">>}

BitInputs ==
    {[items |-> g, registerNames |-> rn, ran |-> FALSE, out |-> NoBits.out] :
        g \in SeqUpTo(BitRegisters, MaxRegisters), rn \in CandidateLists}

InitBitmask ==
    /\ InitToken /\ InitCollect
    /\ IdleInstall /\ IdleAuth /\ IdlePick /\ IdleStatus
    /\ IdleDec /\ IdleTemps /\ IdleAlerts /\ IdleCfg
    /\ bits \in BitInputs

\* ExtractBitmaskStatuses runs on the drawn group and candidate list.
RunExtractBitmaskStatuses ==
    /\ ~bits.ran
    /\ bits' = [bits EXCEPT !.ran = TRUE,
                            !.out = ExtractBitmaskStatuses(bits.items,
                                                           bits.registerNames)]
    /\ UNCHANGED <<tokVars, colVars, instVars, authVars, pickVars, statVars,
                   decVars, tempsVars, alertsVars, cfgVars>>

NextBitmask == RunExtractBitmaskStatuses

SpecBitmask == InitBitmask /\ [][NextBitmask]_vars

\* The label a table name stands for, written out by hand.
BitLabel(name) ==
    CASE name = "COMP_VALUE_STATUS_A"    -> "STATUS_A"
      [] name = "REG_VALUE_STATUS_B"     -> "STATUS_B"
      [] name = "STATUS_C"               -> "STATUS_C"
      [] name = "REG_VALUE_HIDDEN"       -> "HIDDEN"
      [] name = "REG_VALUE_COMP_VALUE_X" -> "COMP_VALUE_X"
      [] name = "COMP_VALUE_Y"           -> "Y"

\* n is the integer part of y, a non-negative number of 1e-5 units.
IsIntegerPart(n, y) == n >= 0 /\ n * Scale <= y /\ y < (n + 1) * Scale

\* n is the register value x, a number of 1e-5 units, plus 0.00001 and cut
\* to its integer part (towards zero).
IsTruncation(n, x) ==
    IF x + 1 >= 0 THEN IsIntegerPart(n, x + 1) ELSE IsIntegerPart(-n, -(x + 1))

\* The two non-negative integers have a binary digit in common.
SharesBit(a, b) ==
    \E d \in 0..7 : ((a \div (2 ^ d)) % 2 = 1) /\ ((b \div (2 ^ d)) % 2 = 1)

\* The result describes the register: its visible labels, and of them the ones
\* with a bit set in the value.
DecodedFrom(reg, out) ==
    LET visible == SelectSeq(reg.ValueNames, LAMBDA vn : vn.Visible)
        set(n) == SelectSeq(visible, LAMBDA vn : SharesBit(n, vn.Value))
    IN  /\ out.Available = [i \in 1..Len(visible) |-> BitLabel(visible[i].Name)]
        /\ reg.RegisterValue.nil => out.Running = <<>>
        /\ ~reg.RegisterValue.nil =>
             \E n \in 0..255 :
               /\ IsTruncation(n, reg.RegisterValue.v)
               /\ out.Running = [i \in 1..Len(set(n)) |-> BitLabel(set(n)[i].Name)]

\* The registers of the group that carry the k-th candidate name.
NamedBy(k) ==
    {i \in 1..Len(bits.items) :
        bits.items[i].RegisterName = bits.registerNames[k]}

\* C11: ExtractBitmaskStatuses decodes the register of the first candidate
\* name that occurs in the group: available is its visible labels without
\* the REG_VALUE_ or COMP_VALUE_ prefix, running is the visible labels whose
\* code shares a bit with the truncated value (5 against 1, 2, 4 gives the
\* labels of 1 and 4), and a register without a value gives an empty running
\* list next to a populated available list.
C11_BitmaskDecode ==
    bits.ran =>
      LET found == {k \in 1..Len(bits.registerNames) : NamedBy(k) # {}}
      IN  /\ found = {} => bits.out = [Running |-> <<>>, Available |-> <<>>]
          /\ \A k \in found :
               (\A j \in found : k <= j) =>
                 \A i \in NamedBy(k) :
                   (\A j \in NamedBy(k) : i <= j) =>
                     /\ DecodedFrom(bits.items[i], bits.out)
                     /\ bits.items[i].RegisterValue.nil =>
                          /\ bits.out.Running = <<>>
                          /\ bits.out.Available # <<>>
                     /\ ( /\ bits.items[i].RegisterValue = Float(500000)
                          /\ bits.items[i].ValueNames = BitTableA )
                        => bits.out.Running = <<"STATUS_A", "STATUS_C">>

\* The group lists a lower-ranked candidate first, and the register chosen
\* holds 5 against the codes 1, 2 and 4.
C11_Witness ==
    /\ bits.ran
    /\ bits.registerNames = OperationalStatusCandidates
    /\ Len(bits.items) = 2
    /\ bits.items[1].RegisterName = "COMP_STATUS_ITEC"
    /\ bits.items[1].ValueNames = BitTableB
    /\ bits.items[2] = GroupItem("COMP_STATUS", Float(500000), BitTableA)
    /\ bits.out.Running = <<"STATUS_A", "STATUS_C">>
    /\ bits.out.Available = <<"STATUS_A", "STATUS_B", "STATUS_C">>

\* The sequence r is a of which some elements were left out: r can be laid
\* on a, element on equal element, without changing the order of either.
IsSubsequence(r, a) ==
    \E at \in [1..Len(r) -> 1..Len(a)] :
        /\ \A i \in 1..Len(r) : a[at[i]] = r[i]
        /\ \A i, j \in 1..Len(r) : i < j => at[i] < at[j]

\* C29: in every result of ExtractBitmaskStatuses each running label is one
\* of the available labels, and the running labels stand in the order in
\* which the available list has them.
C29_RunningWithinAvailable ==
    bits.ran =>
      /\ \A i \in 1..Len(bits.out.Running) :
            \E j \in 1..Len(bits.out.Available) :
                bits.out.Available[j] = bits.out.Running[i]
      /\ IsSubsequence(bits.out.Running, bits.out.Available)

\* C29's case: the register holds 12 against the codes 1, 2, 4 and a hidden
\* 8; the label of 4 alone is running and the three visible ones are
\* available.
C29_Witness ==
    /\ bits.ran
    /\ bits.items = <<GroupItem("COMP_STATUS", Float(1200000), BitTableA)>>
    /\ bits.registerNames = OperationalStatusCandidates
    /\ bits.out.Running = <<"STATUS_C">>
    /\ bits.out.Available = <<"STATUS_A", "STATUS_B", "STATUS_C">>

-----------------------------------------------------------------------------
(* The register decoders, run on one group: SpecDecode *)

MaxItems == 2

\* The table the decoded registers carry: codes 0, 4, 5, 567 and 1234 under
\* operation-mode names, which also gives the bits 1, 2 and 4 a label each.
DecTable ==
    <<[Name |-> "REG_VALUE_OPERATION_MODE_OFF",     Value |-> 0,    Visible |-> TRUE],
      [Name |-> "REG_VALUE_OPERATION_MODE_ONE",     Value |-> 1,    Visible |-> TRUE],
      [Name |-> "REG_VALUE_OPERATION_MODE_TWO",     Value |-> 2,    Visible |-> TRUE],
      [Name |-> "REG_VALUE_OPERATION_MODE_AUTO",    Value |-> 4,    Visible |-> TRUE],
      [Name |-> "REG_VALUE_MANUAL",                 Value |-> 5,    Visible |-> FALSE],
      [Name |-> "REG_VALUE_OPERATION_MODE_SERVICE", Value |-> 567,  Visible |-> TRUE],
      [Name |-> "OPERATION_MODE_TEST",              Value |-> 1234, Visible |-> TRUE]>>

\* Register values: none, 5.0, 4.99999, 4.9, 1234.5, 567.8, -1.0 and 3.0.
DecValues ==
    {NilValue} \cup
    {Float(x) : x \in {500000, 499999, 490000, 123450000, 56780000, -100000,
                       300000}}

DecNames ==
    {RegOperationMode, RegHotWaterBoost, RegHotWaterStatus,
     "REG_OPER_TIME_COMPRESSOR", "COMP_STATUS"}

DecRegisters == {GroupItem(n, v, DecTable) : n \in DecNames, v \in DecValues}

DecInputs ==
    {[items |-> g, ran |-> FALSE, out |-> NoDec.out] :
        g \in SeqUpTo(DecRegisters, MaxItems)}

InitDecode ==
    /\ InitToken /\ InitCollect
    /\ IdleInstall /\ IdleAuth /\ IdlePick /\ IdleStatus
    /\ IdleBits /\ IdleTemps /\ IdleAlerts /\ IdleCfg
    /\ dec \in DecInputs

\* Each decoder runs on the drawn group.
RunDecoders ==
    /\ ~dec.ran
    /\ dec' = [dec EXCEPT
                 !.ran = TRUE,
                 !.out = [mode |-> ExtractOperationMode(dec.items),
                          status |-> ExtractBitmaskStatuses(
                                       dec.items, OperationalStatusCandidates),
                          hotWater |-> ExtractHotWaterSwitches(dec.items),
                          operTime |-> ExtractOperationalTime(dec.items)]]
    /\ UNCHANGED <<tokVars, colVars, instVars, authVars, pickVars, statVars,
                   bitsVars, tempsVars, alertsVars, cfgVars>>

NextDecode == RunDecoders

SpecDecode == InitDecode /\ [][NextDecode]_vars

\* The integer each register value stands for, computed by hand.
HandCode(x) ==
    CASE x = 500000    -> 5
      [] x = 499999    -> 5
      [] x = 490000    -> 4
      [] x = 123450000 -> 1234
      [] x = 56780000  -> 567
      [] x = -100000   -> 0
      [] x = 300000    -> 3

\* The mode label of an integer code in DecTable, written out by hand.
HandMode(n) ==
    CASE n = 0    -> "OFF"
      [] n = 3    -> ""
      [] n = 4    -> "AUTO"
      [] n = 5    -> "MANUAL"
      [] n = 567  -> "SERVICE"
      [] n = 1234 -> "OPERATION_MODE_TEST"

\* The status labels of an integer code: the visible entries of DecTable
\* that share a bit with it, written out by hand.
HandRunning(n) ==
    CASE n = 0    -> <<>>
      [] n = 3    -> <<"OPERATION_MODE_ONE", "OPERATION_MODE_TWO",
                       "OPERATION_MODE_SERVICE", "OPERATION_MODE_TEST">>
      [] n = 4    -> <<"OPERATION_MODE_AUTO", "OPERATION_MODE_SERVICE">>
      [] n = 5    -> <<"OPERATION_MODE_ONE", "OPERATION_MODE_AUTO",
                       "OPERATION_MODE_SERVICE">>
      [] n = 567  -> <<"OPERATION_MODE_ONE", "OPERATION_MODE_TWO",
                       "OPERATION_MODE_AUTO", "OPERATION_MODE_SERVICE",
                       "OPERATION_MODE_TEST">>
      [] n = 1234 -> <<"OPERATION_MODE_TWO", "OPERATION_MODE_SERVICE",
                       "OPERATION_MODE_TEST">>

\* The items of the group under a name, and those of them with a value.
DecNamed(rn) == {i \in 1..Len(dec.items) : dec.items[i].RegisterName = rn}

DecValued(rn) == {i \in DecNamed(rn) : ~dec.items[i].RegisterValue.nil}

Lowest(S) == CHOOSE i \in S : \A j \in S : i <= j

Highest(S) == CHOOSE i \in S : \A j \in S : i >= j

\* C12: every register value decoded to an integer is converted as
\* truncate(x + 0.00001): the operation mode, the bitmask status, the
\* hot-water switch and boost and the hour counter each report the code
\* computed by hand (5.0 gives 5, 4.99999 gives 5, 4.9 gives 4, 1234.5 gives
\* 1234, 567.8 gives 567), and that code is the truncation of x + 0.00001.
C12_TruncatedDecode ==
    /\ \A x \in {v.v : v \in DecValues \ {NilValue}} : IsTruncation(HandCode(x), x)
    /\ dec.ran =>
         /\ \A i \in DecNamed(RegOperationMode) :
              ( /\ i = Lowest(DecNamed(RegOperationMode))
                /\ ~dec.items[i].RegisterValue.nil )
              => dec.out.mode.Current =
                   HandMode(HandCode(dec.items[i].RegisterValue.v))
         /\ \A i \in DecNamed("COMP_STATUS") :
              ( /\ i = Lowest(DecNamed("COMP_STATUS"))
                /\ ~dec.items[i].RegisterValue.nil )
              => dec.out.status.Running =
                   HandRunning(HandCode(dec.items[i].RegisterValue.v))
         /\ \A i \in DecValued(RegHotWaterStatus) :
              i = Highest(DecValued(RegHotWaterStatus))
              => dec.out.hotWater.switchState =
                   IntPtr(HandCode(dec.items[i].RegisterValue.v))
         /\ \A i \in DecValued(RegHotWaterBoost) :
              i = Highest(DecValued(RegHotWaterBoost))
              => dec.out.hotWater.boostState =
                   IntPtr(HandCode(dec.items[i].RegisterValue.v))
         /\ \A i \in DecValued("REG_OPER_TIME_COMPRESSOR") :
              i = Lowest(DecValued("REG_OPER_TIME_COMPRESSOR"))
              => /\ "REG_OPER_TIME_COMPRESSOR" \in DOMAIN dec.out.operTime
                 /\ dec.out.operTime["REG_OPER_TIME_COMPRESSOR"] =
                      HandCode(dec.items[i].RegisterValue.v)

\* An hour counter of 1234.5 is reported as 1234 and an operation mode of
\* 4.99999 as the mode of code 5.
C12_Witness ==
    /\ dec.ran
    /\ dec.items = <<GroupItem("REG_OPER_TIME_COMPRESSOR", Float(123450000),
                               DecTable),
                     GroupItem(RegOperationMode, Float(499999), DecTable)>>
    /\ dec.out.operTime["REG_OPER_TIME_COMPRESSOR"] = 1234
    /\ dec.out.mode.Current = "MANUAL"

\* The names of DecTable with REG_VALUE_OPERATION_MODE_ and then REG_VALUE_
\* taken off their front, written out by hand.
Stripped(name) ==
    CASE name = "REG_VALUE_OPERATION_MODE_OFF"     -> "OFF"
      [] name = "REG_VALUE_OPERATION_MODE_ONE"     -> "ONE"
      [] name = "REG_VALUE_OPERATION_MODE_TWO"     -> "TWO"
      [] name = "REG_VALUE_OPERATION_MODE_AUTO"    -> "AUTO"
      [] name = "REG_VALUE_MANUAL"                 -> "MANUAL"
      [] name = "REG_VALUE_OPERATION_MODE_SERVICE" -> "SERVICE"
      [] name = "OPERATION_MODE_TEST"              -> "OPERATION_MODE_TEST"

\* The visible entries of a table, in the order of the table.
VisibleOf(table) == SelectSeq(table, LAMBDA vn : vn.Visible)

\* The entries of a table that carry the code n.
Coded(table, n) == {i \in 1..Len(table) : table[i].Value = n}

\* C24: ExtractOperationMode reads the first REG_OPERATIONMODE item of the
\* group. Available is the stripped name of each visible entry of its table,
\* in table order. Current is the stripped name of an entry whose code is
\* the integer the register value stands for; it is "" when the register has
\* no value and when no entry has that code. With no REG_OPERATIONMODE item
\* in the group, Current is "" and Available is empty.
C24_OperationModeDecoded ==
    dec.ran =>
      /\ DecNamed(RegOperationMode) = {} =>
            /\ dec.out.mode.Current = ""
            /\ dec.out.mode.Available = <<>>
      /\ DecNamed(RegOperationMode) # {} =>
            LET it == dec.items[Lowest(DecNamed(RegOperationMode))]
                shown == VisibleOf(it.ValueNames)
            IN  /\ dec.out.mode.Available =
                      [i \in 1..Len(shown) |-> Stripped(shown[i].Name)]
                /\ it.RegisterValue.nil => dec.out.mode.Current = ""
                /\ ~it.RegisterValue.nil =>
                      LET hits == Coded(it.ValueNames,
                                        HandCode(it.RegisterValue.v))
                      IN  /\ hits = {} => dec.out.mode.Current = ""
                          /\ hits # {} =>
                                \E i \in hits : dec.out.mode.Current =
                                    Stripped(it.ValueNames[i].Name)

\* C24's case: a group whose first item is another register and whose
\* operation mode is 567.8 gives SERVICE and the six visible labels.
C24_Witness ==
    /\ dec.ran
    /\ dec.items = <<GroupItem("COMP_STATUS", Float(300000), DecTable),
                     GroupItem(RegOperationMode, Float(56780000), DecTable)>>
    /\ dec.out.mode.Current = "SERVICE"
    /\ dec.out.mode.Available =
          <<"OFF", "ONE", "TWO", "AUTO", "SERVICE", "OPERATION_MODE_TEST">>

\* C30: in every result of ExtractOperationMode a current mode that is not
\* empty is one of the labels of the available list.
C30_CurrentIsAvailable ==
    (dec.ran /\ dec.out.mode.Current # "") =>
        \E i \in 1..Len(dec.out.mode.Available) :
            dec.out.mode.Available[i] = dec.out.mode.Current

-----------------------------------------------------------------------------
(* The temperature mapping of one scrape: SpecTemps *)

MaxTempItems == 2

\* Indoor readings of the status summary: none, 22.5, 99.9, 100.0, 150.0.
StatusIndoor ==
    {NilValue} \cup {Float(x) : x \in {2250000, 9990000, 10000000, 15000000}}

\* Register readings: none, 22.53, -2.3, -2.34, 99.9 and 100.0.
RegisterReadings ==
    {NilValue} \cup
    {Float(x) : x \in {2253000, -230000, -234000, 9990000, 10000000}}

TempRegisters ==
    {GroupItem(n, v, <<>>) :
        n \in {"REG_INDOOR_TEMPERATURE", "REG_OUTDOOR_TEMPERATURE"},
        v \in RegisterReadings}
    \cup {GroupItem("REG_OPER_DATA_RETURN", Float(3523400), <<>>)}

\* The status summary carries an indoor reading and a supply line of 35.234,
\* or lacks them.
TempInputs ==
    {[status |-> [NoStatusSummary EXCEPT !.IndoorTemperature = a,
                                         !.SupplyLine = b],
      grp |-> g, ran |-> FALSE, data |-> NoTemperatureData, out |-> <<>>] :
        a \in StatusIndoor, b \in {NilValue, Float(3523400)},
        g \in SeqUpTo(TempRegisters, MaxTempItems)}

\* Registers the readings fall back on: the three of the desired supply
\* line, the two of the return line and the one of the brine inlet, each
\* without a value, at 30.0 or at 41.5.
FallbackRegisters ==
    {GroupItem(n, v, <<>>) :
        n \in {"REG_DESIRED_SUPPLY_LINE_TEMP", "REG_DESIRED_SUPPLY_LINE",
               "REG_DESIRED_SYS_SUPPLY_LINE_TEMP", "REG_RETURN_LINE",
               "REG_OPER_DATA_RETURN", "REG_BRINE_IN"},
        v \in {NilValue, Float(3000000), Float(4150000)}}

\* The status summary carries a desired supply line of 45.0, a return line
\* of 33.0 and a hot-water reading of 50.0, or lacks them.
FallbackInputs ==
    {[status |-> [NoStatusSummary EXCEPT !.DesiredSupplyLineTemperature = d,
                                         !.ReturnLineTemperature = r,
                                         !.HotWaterTemperature = h],
      grp |-> g, ran |-> FALSE, data |-> NoTemperatureData, out |-> <<>>] :
        d \in {NilValue, Float(4500000)}, r \in {NilValue, Float(3300000)},
        h \in {NilValue, Float(5000000)},
        g \in SeqUpTo(FallbackRegisters, MaxTempItems)}

InitTemps ==
    /\ InitToken /\ InitCollect
    /\ IdleInstall /\ IdleAuth /\ IdlePick /\ IdleStatus
    /\ IdleBits /\ IdleDec /\ IdleAlerts /\ IdleCfg
    /\ temps \in TempInputs \cup FallbackInputs

\* emitTemperatureMetrics: ExtractTemperatures, the outdoor reading, then
\* the map of readings.
RunTemperatures ==
    /\ ~temps.ran
    /\ LET data == ExtractTemperatures(temps.status, temps.grp)
       IN  temps' = [temps EXCEPT
                       !.ran = TRUE,
                       !.data = data,
                       !.out = TemperaturesToMap(WithOutdoor(data, temps.grp))]
    /\ UNCHANGED <<tokVars, colVars, instVars, authVars, pickVars, statVars,
                   bitsVars, decVars, alertsVars, cfgVars>>

NextTemps == RunTemperatures

SpecTemps == InitTemps /\ [][NextTemps]_vars

\* The first register of the group with the name and a value, if any.
FirstReading(rn) ==
    LET at == {i \in 1..Len(temps.grp) :
                 /\ temps.grp[i].RegisterName = rn
                 /\ ~temps.grp[i].RegisterValue.nil}
    IN  IF at = {} THEN NilValue ELSE temps.grp[Lowest(at)].RegisterValue

\* a when it is a value, b otherwise.
Else(a, b) == IF ~a.nil THEN a ELSE b

\* The reading behind a key: the status summary first, then the registers.
Reading(key) ==
    CASE key = "indoor" ->
           IF ~temps.status.IndoorTemperature.nil
             THEN temps.status.IndoorTemperature
           ELSE FirstReading("REG_INDOOR_TEMPERATURE")
      [] key = "outdoor" -> FirstReading("REG_OUTDOOR_TEMPERATURE")
      [] key = "supply_line" -> temps.status.SupplyLine
      [] key = "desired_supply_line" ->
           Else(temps.status.DesiredSupplyLineTemperature,
             Else(FirstReading("REG_DESIRED_SUPPLY_LINE_TEMP"),
               Else(FirstReading("REG_DESIRED_SUPPLY_LINE"),
                    FirstReading("REG_DESIRED_SYS_SUPPLY_LINE_TEMP"))))
      [] key = "return_line" ->
           Else(temps.status.ReturnLineTemperature,
             Else(FirstReading("REG_RETURN_LINE"),
                  FirstReading("REG_OPER_DATA_RETURN")))
      [] key = "hot_water" -> temps.status.HotWaterTemperature
      [] key = "brine_in" -> FirstReading("REG_BRINE_IN")
      [] OTHER -> NilValue

\* The outdoor reading is v and it has been reported as tenths.
OutdoorGives(v, tenths) ==
    (temps.ran /\ Reading("outdoor") = Float(v))
    => ("outdoor" \in DOMAIN temps.out /\ temps.out["outdoor"] = tenths)

\* C13 as stated: round1(-2.34) equals -2.3 under the formula that gives
\* round1(22.53) = 22.5.
C13_NegativeRoundsToNearest ==
    /\ OutdoorGives(2253000, 225)
    /\ OutdoorGives(-234000, -23)

\* C13, amended: under the multiply-by-10, add-0.5, truncate, divide-by-10
\* formula round1(22.53) is 22.5 and round1(-2.34) is -2.2.
C13_NegativeTruncatesUp ==
    /\ OutdoorGives(2253000, 225)
    /\ OutdoorGives(-234000, -22)

\* An outdoor reading of -2.34 has been reported.
C13_Witness ==
    /\ temps.ran
    /\ Reading("outdoor") = Float(-234000)
    /\ "outdoor" \in DOMAIN temps.out

\* The keys whose readings the inputs vary.
VariedKeys ==
    {"indoor", "outdoor", "supply_line", "desired_supply_line", "return_line",
     "hot_water", "brine_in"}

\* tenths is truncate(10*v + 0.5), the truncation being towards zero.
IsRounded(tenths, v) ==
    LET a == 10 * v + Scale \div 2
    IN  IF a >= 0 THEN IsIntegerPart(tenths, a) ELSE IsIntegerPart(-tenths, -a)

\* tenths is v rounded to one decimal, a half going up.
IsHalfUp(tenths, v) ==
    /\ tenths * (Scale \div 10) - Scale \div 20 <= v
    /\ v < tenths * (Scale \div 10) + Scale \div 20

\* C14: TemperaturesToMap reports every present temperature v as
\* truncate(10*v + 0.5)/10 with truncation towards zero: a positive value is
\* rounded half-up to one decimal (35.234 gives 35.2, 22.5 stays 22.5) and
\* -2.3 is reported as -2.2.
C14_RoundedToOneDecimal ==
    temps.ran =>
      /\ DOMAIN temps.out \subseteq VariedKeys
      /\ \A key \in VariedKeys :
           LET r == Reading(key)
           IN  /\ (~r.nil /\ key # "indoor") => key \in DOMAIN temps.out
               /\ key \in DOMAIN temps.out =>
                    /\ ~r.nil
                    /\ IsRounded(temps.out[key], r.v)
                    /\ r.v >= 0 => IsHalfUp(temps.out[key], r.v)
                    /\ r.v = 3523400 => temps.out[key] = 352
                    /\ r.v = 2250000 => temps.out[key] = 225
                    /\ r.v = -230000 => temps.out[key] = -22

\* The unit test's readings: indoor 22.5, outdoor -2.3, supply line 35.234.
C14_Witness ==
    /\ temps.ran
    /\ temps.status.IndoorTemperature = Float(2250000)
    /\ temps.status.SupplyLine = Float(3523400)
    /\ Reading("outdoor") = Float(-230000)
    /\ temps.out["indoor"] = 225
    /\ temps.out["outdoor"] = -22
    /\ temps.out["supply_line"] = 352

\* C15: an indoor temperature of 100.0 or above never appears in the reading
\* set, one of 99.9 always appears, and it makes no difference whether the
\* status summary or the fallback register supplied the value.
C15_IndoorSentinelDropped ==
    temps.ran =>
      \A fromStatus \in BOOLEAN :
        LET r == IF fromStatus THEN temps.status.IndoorTemperature
                 ELSE FirstReading("REG_INDOOR_TEMPERATURE")
            supplied == /\ ~r.nil
                        /\ ~fromStatus => temps.status.IndoorTemperature.nil
        IN  /\ (supplied /\ r.v >= 100 * Scale)
               => "indoor" \notin DOMAIN temps.out
            /\ (supplied /\ r.v = 9990000)
               => ("indoor" \in DOMAIN temps.out /\ temps.out["indoor"] = 999)

\* The fallback register supplied an indoor reading of 100.0, and the map has
\* other readings.
C15_Witness ==
    /\ temps.ran
    /\ temps.status.IndoorTemperature.nil
    /\ FirstReading("REG_INDOOR_TEMPERATURE") = Float(10000000)
    /\ "indoor" \notin DOMAIN temps.out
    /\ DOMAIN temps.out # {}

\* The candidates of each field of TemperatureData, in their order: the
\* field of the status summary, then register names.
CandidatesOf ==
    [Indoor |-> <<"IndoorTemperature", "REG_INDOOR_TEMPERATURE">>,
     Outdoor |-> <<>>,
     SupplyLine |-> <<"SupplyLine", "REG_SUPPLY_LINE">>,
     DesiredSupplyLine |->
       <<"DesiredSupplyLineTemperature", "REG_DESIRED_SUPPLY_LINE_TEMP",
         "REG_DESIRED_SUPPLY_LINE", "REG_DESIRED_SYS_SUPPLY_LINE_TEMP">>,
     ReturnLine |->
       <<"ReturnLineTemperature", "REG_RETURN_LINE", "REG_OPER_DATA_RETURN">>,
     BufferTank |-> <<"BufferTankTemperature", "REG_OPER_DATA_BUFFER_TANK">>,
     HotWater |-> <<"HotWaterTemperature">>,
     BrineOut |-> <<"BrineOutTemperature", "REG_BRINE_OUT">>,
     BrineIn |-> <<"BrineInTemperature", "REG_BRINE_IN">>,
     Pool |-> <<"PoolTemperature", "REG_ACTUAL_POOL_TEMP">>,
     CoolingTank |-> <<"CoolingTankTemperature", "REG_COOL_SENSOR_TANK">>,
     CoolingSupply |->
       <<"CoolingSupplyLineTemperature", "REG_COOL_SENSOR_SUPPLY">>]

\* What the i-th candidate of a field offers: the status summary's value for
\* the first, the first register of that name with a value for the others.
Offer(field, i) ==
    IF i = 1 THEN temps.status[CandidatesOf[field][1]]
    ELSE FirstReading(CandidatesOf[field][i])

\* C25: each field of the TemperatureData that ExtractTemperatures returns
\* is what the first candidate with a value offers, in the order status
\* summary, then the field's registers (desired supply line:
\* REG_DESIRED_SUPPLY_LINE_TEMP, REG_DESIRED_SUPPLY_LINE,
\* REG_DESIRED_SYS_SUPPLY_LINE_TEMP; return line: REG_RETURN_LINE,
\* REG_OPER_DATA_RETURN); the field is nil exactly when no candidate offers
\* a value.
C25_FirstCandidateWithValue ==
    temps.ran =>
      \A field \in DOMAIN CandidatesOf :
        LET n == Len(CandidatesOf[field])
            got == temps.data[field]
        IN  /\ got.nil <=> \A i \in 1..n : Offer(field, i).nil
            /\ ~got.nil =>
                  \E i \in 1..n :
                    /\ got = Offer(field, i)
                    /\ ~Offer(field, i).nil
                    /\ \A j \in 1..(i - 1) : Offer(field, j).nil

\* C25's case: the status summary has no desired supply line, the group
\* holds REG_DESIRED_SUPPLY_LINE at 30.0 before REG_DESIRED_SUPPLY_LINE_TEMP
\* at 41.5, and the reading is 41.5, the earlier candidate.
C25_Witness ==
    /\ temps.ran
    /\ temps.status.DesiredSupplyLineTemperature.nil
    /\ temps.grp =
          <<GroupItem("REG_DESIRED_SUPPLY_LINE", Float(3000000), <<>>),
            GroupItem("REG_DESIRED_SUPPLY_LINE_TEMP", Float(4150000), <<>>)>>
    /\ temps.data.DesiredSupplyLine = Float(4150000)
    /\ temps.data.ReturnLine.nil

-----------------------------------------------------------------------------
(* ExtractAlerts, run on its own: SpecAlerts *)

MaxActive == 2

MaxAll == 3

\* Event titles: two alarms, one of them also padded with blanks, and a
\* title of blanks only.
EventTitles == {"Low pressure", " Low pressure ", "Sensor fault", " "}

Events == {[EventTitle |-> t] : t \in EventTitles}

AlertInputs ==
    {[activeEvents |-> a, allEvents |-> h, ran |-> FALSE, out |-> NoAlerts.out] :
        a \in SeqUpTo(Events, MaxActive), h \in SeqUpTo(Events, MaxAll)}

InitAlerts ==
    /\ InitToken /\ InitCollect
    /\ IdleInstall /\ IdleAuth /\ IdlePick /\ IdleStatus
    /\ IdleBits /\ IdleDec /\ IdleTemps /\ IdleCfg
    /\ alerts \in AlertInputs

\* ExtractAlerts runs on the two drawn event lists.
RunExtractAlerts ==
    /\ ~alerts.ran
    /\ alerts' = [alerts EXCEPT
                    !.ran = TRUE,
                    !.out = ExtractAlerts(alerts.activeEvents,
                                          alerts.allEvents)]
    /\ UNCHANGED <<tokVars, colVars, instVars, authVars, pickVars, statVars,
                   bitsVars, decVars, tempsVars, cfgVars>>

NextAlerts == RunExtractAlerts

SpecAlerts == InitAlerts /\ [][NextAlerts]_vars

\* The title without the blanks around it, written out by hand.
HandTrimmed(t) ==
    CASE t = "Low pressure"   -> "Low pressure"
      [] t = " Low pressure " -> "Low pressure"
      [] t = "Sensor fault"   -> "Sensor fault"
      [] t = " "              -> ""

\* Where a title first occurs in an event list.
FirstAt(events, title) ==
    Lowest({i \in 1..Len(events) : HandTrimmed(events[i].EventTitle) = title})

\* titles holds, once each and in the order of their first occurrence, the
\* trimmed non-empty titles of the events that are not among the excluded.
IsReduction(titles, events, excluded) ==
    /\ {titles[i] : i \in 1..Len(titles)} =
         {HandTrimmed(events[i].EventTitle) : i \in 1..Len(events)}
           \ ({""} \cup excluded)
    /\ \A i, j \in 1..Len(titles) :
         i < j => FirstAt(events, titles[i]) < FirstAt(events, titles[j])

\* C16: ExtractAlerts reduces each event list to its unique, trimmed,
\* non-empty titles, first occurrence kept and order preserved; active is the
\* reduced active list and archived is the reduced full list without the
\* active titles (active [Low pressure], all [Low pressure, Low pressure,
\* Sensor fault] gives active [Low pressure], archived [Sensor fault]).
C16_AlertReconciliation ==
    alerts.ran =>
      /\ IsReduction(alerts.out.active, alerts.activeEvents, {})
      /\ IsReduction(alerts.out.archived, alerts.allEvents,
                     {alerts.out.active[i] : i \in 1..Len(alerts.out.active)})
      /\ ( /\ alerts.activeEvents = <<[EventTitle |-> "Low pressure"]>>
           /\ alerts.allEvents = <<[EventTitle |-> "Low pressure"],
                                   [EventTitle |-> "Low pressure"],
                                   [EventTitle |-> "Sensor fault"]>> )
         => /\ alerts.out.active = <<"Low pressure">>
            /\ alerts.out.archived = <<"Sensor fault">>

\* The example of the claim has been run.
C16_Witness ==
    /\ alerts.ran
    /\ alerts.activeEvents = <<[EventTitle |-> "Low pressure"]>>
    /\ alerts.allEvents = <<[EventTitle |-> "Low pressure"],
                            [EventTitle |-> "Low pressure"],
                            [EventTitle |-> "Sensor fault"]>>
    /\ alerts.out = [active |-> <<"Low pressure">>,
                     archived |-> <<"Sensor fault">>]

-----------------------------------------------------------------------------
(* LoadConfig, run on its own: SpecConfig *)

\* What a secret file holds: nothing, a blank line, or a value and a newline.
UsernameData == {"", " \n", "k8s-user\n"}

PasswordData == {"", "\n", " k8s-pass\n"}

\* The secrets directory: absent, or present with each file missing,
\* unreadable or readable.
SecretDirs ==
    {[dir |-> FALSE, username |-> MissingFile, password |-> MissingFile]}
    \cup
    {[dir |-> TRUE, username |-> u, password |-> p] :
        u \in {MissingFile, UnreadableFile} \cup {FileOf(d) : d \in UsernameData},
        p \in {MissingFile, UnreadableFile} \cup {FileOf(d) : d \in PasswordData}}

Environments ==
    {[NoEnv EXCEPT !.THERMIA_USERNAME = u, !.THERMIA_PASSWORD = p,
                   !.THERMIA_ADDR = a, !.THERMIA_REQUEST_TIMEOUT = t,
                   !.THERMIA_LOG_LEVEL = l] :
        u \in {"", "env-user"}, p \in {"", "env-pass"}, a \in {"", ":9999"},
        t \in {"", "30", "0", "5m"}, l \in {"", "debug"}}

ConfigInputs ==
    {[fs |-> d, env |-> e, ran |-> FALSE, out |-> DefaultConfig] :
        d \in SecretDirs, e \in Environments}

InitConfig ==
    /\ InitToken /\ InitCollect
    /\ IdleInstall /\ IdleAuth /\ IdlePick /\ IdleStatus
    /\ IdleBits /\ IdleDec /\ IdleTemps /\ IdleAlerts
    /\ cfg \in ConfigInputs

\* LoadConfig runs on the drawn directory and environment.
RunLoadConfig ==
    /\ ~cfg.ran
    /\ cfg' = [cfg EXCEPT !.ran = TRUE, !.out = LoadConfig(cfg.fs, cfg.env)]
    /\ UNCHANGED <<tokVars, colVars, instVars, authVars, pickVars, statVars,
                   bitsVars, decVars, tempsVars, alertsVars>>

NextConfig == RunLoadConfig

SpecConfig == InitConfig /\ [][NextConfig]_vars

\* The value a secret file provides, written out by hand; "" when the file is
\* missing, unreadable, empty or blank.
Provided(file) ==
    CASE file.state # "data"        -> ""
      [] file.data = "k8s-user\n"   -> "k8s-user"
      [] file.data = " k8s-pass\n"  -> "k8s-pass"
      [] OTHER                      -> ""

\* C17 as stated: a username or a password provided in the secret files is
\* used in preference to the environment variable, and the environment is
\* used only for what the secrets do not provide.
C17_SecretsWinPerField ==
    cfg.ran =>
      /\ cfg.out.Username =
           IF Provided(cfg.fs.username) # "" THEN Provided(cfg.fs.username)
           ELSE cfg.env.THERMIA_USERNAME
      /\ cfg.out.Password =
           IF Provided(cfg.fs.password) # "" THEN Provided(cfg.fs.password)
           ELSE cfg.env.THERMIA_PASSWORD

\* C17, amended: when the secret files provide both a username and a
\* password, both are used in preference to the environment variables;
\* otherwise both the username and the password are the environment's.
C17_SecretsWinAsAPair ==
    cfg.ran =>
      IF Provided(cfg.fs.username) # "" /\ Provided(cfg.fs.password) # ""
        THEN /\ cfg.out.Username = Provided(cfg.fs.username)
             /\ cfg.out.Password = Provided(cfg.fs.password)
      ELSE /\ cfg.out.Username = cfg.env.THERMIA_USERNAME
           /\ cfg.out.Password = cfg.env.THERMIA_PASSWORD

\* Both secret files and both environment variables are set, and the secrets
\* have been used.
C17_Witness ==
    /\ cfg.ran
    /\ cfg.fs.username = FileOf("k8s-user\n")
    /\ cfg.fs.password = FileOf(" k8s-pass\n")
    /\ cfg.env.THERMIA_USERNAME = "env-user"
    /\ cfg.env.THERMIA_PASSWORD = "env-pass"
    /\ cfg.out.Username = "k8s-user"
    /\ cfg.out.Password = "k8s-pass"

=============================================================================
